---- MODULE Spec2Model ----
(***************************************************************************)
(* A model of the metadata-enrichment and caching core of the Ani-CLI      *)
(* FastAPI service: app/cache.py (TTLCache), app/utils.py (the enrichment  *)
(* providers) and the page-level routes app/routes/{search,anime,popular}. *)
(*                                                                         *)
(* Python values are encoded as follows.  An Optional value is a sequence  *)
(* of length 0 (None) or 1 (<<v>>).  Time (time.monotonic) is an integer   *)
(* number of ticks.  A string the code inspects is a sequence of           *)
(* one-character strings.  A decoded JSON value is a record [t, v].        *)
(*                                                                         *)
(* SpecCache and SpecSeq run the cache, SpecProv one provider function,    *)
(* SpecEnrich one page request; each keeps the other parts at rest.        *)
(***************************************************************************)
EXTENDS Integers, Sequences, FiniteSets, TLC

(***************************************************************************)
(* Bounds of the model.                                                    *)
(***************************************************************************)
\* the clock runs from 0 to MaxClock
MaxClock == 3
\* TTLCache(ttl_seconds=Ttl, maxsize=...): the time to live, in ticks
Ttl == 2
\* maxsize of the cache that concurrent threads share
ConcMaxsize == 1
\* maxsize of the cache that one thread uses
SeqMaxsize == 2
\* @lru_cache(maxsize=LruMaxsize) of a provider function (128 in utils.py)
LruMaxsize == 2
\* asyncio.Semaphore(SemValue) of a page request (10 in the routes)
SemValue == 2
\* ThreadPoolExecutor(max_workers=MaxWorkers) of the pre-pass (10 in the routes)
MaxWorkers == 2
\* the longest page the primary source returns
MaxPage == 3

Threads == {1, 2}
Keys == {"k1", "k2", "k3"}
ConcKeys == {"k1", "k2"}
Vals == {"v1", "v2"}
\* Python's None when it is the value a factory returns and set stores
NoneValue == "None"

None == <<>>
Some(v) == <<v>>

VARIABLES
    \* ---- app/cache.py: one TTLCache and the threads calling it
    clock,      \* time.monotonic()
    ttl,        \* self._ttl
    maxsize,    \* self._maxsize
    data,       \* self._data, a dict in insertion order: a sequence of
                \* [key, expires_at, value]
    tpc,        \* per thread: where it is in get / set / get_or_set
    tkey,       \* per thread: the key argument
    tval,       \* per thread: the value argument (set) or factory() result
    tnow,       \* per thread: the local `now` read before taking the lock
    tret,       \* per thread: Optional return value of the last get / get_or_set
    last,       \* history: the last operation that completed under the lock
    hist,       \* history: per key the `now` of the last set that stored it
                \* (-1: never set), and whether some get(k) that came right
                \* after a set(k, v), at the same clock value, has hit; the
                \* keys present in the order the caller first put them
    track       \* what the history records: "off", "times" (keys, values and
                \* times of the operations) or "order" (the order of insertion)

cacheVars == <<clock, ttl, maxsize, data, tpc, tkey, tval, tnow, tret, last, hist,
               track>>

VARIABLES
    \* ---- app/routes: one page request and its enrichment
    endpoint,   \* "search", "browse" or "popular" ("none" before the request)
    rpc,        \* where the handler is: "idle", "prepass", "gather", "done",
                \* "error" ("off" when no request is modelled)
    down,       \* the providers whose upstream fails on every call
    primary,    \* the page as the primary source (or the cache) returned it
    limit,      \* the limit parameter
    items,      \* the entries handed to enrichment; the pre-pass writes
                \* their image
    calls,      \* per entry and provider: [st, res], st one of "skipped",
                \* "queued", "pending", "returned", "raised"
    est,        \* per entry: "waiting" for the semaphore, "running", "done",
                \* "raised"
    out,        \* per slot of the outer gather: the Optional enriched entry
    ptr,        \* the last future of the pre-pass the handler collected
    resp,       \* the response: [status, total_results, data]
    reordered   \* history: some entry completed before an earlier one
enrichVars == <<endpoint, rpc, down, primary, limit, items, calls, est, out,
                ptr, resp, reordered>>

VARIABLES
    \* ---- app/utils.py: one provider function behind its lru_cache
    fn,         \* the function ("none" when no provider is modelled)
    memo,       \* the lru_cache table, least recently used first: a
                \* sequence of [name, val]
    pcall       \* the last call: [name, outcome, hit, raised, val]
provVars == <<fn, memo, pcall>>

VARIABLES
    \* ---- app/routes: requests served one after the other from a cache
    cname,      \* the cache: "SEARCH_CACHE" or "BROWSE_CACHE" ("none" when no
                \* request sequence is modelled)
    req,        \* the request in hand, or the last one: [pc, ep, query, page,
                \* limit, genres, key], pc "idle" or "primary" (waiting
                \* for the primary source)
    answer,     \* the last response: [status, hit, primarycalls,
                \* providercalls, data, total, has_next, primaryraised]
    origin,     \* history, per entry of data: the request that stored it,
                \* what the primary source had returned, the response
    panswer,    \* per provider, what it answers: [raised, res]
    provider,   \* what get_provider() returns: [get_browse, no_query], whether
                \* it has the method get_browse and the NO_QUERY capability
    lreq        \* the stream or episodes request in hand, or the last one:
                \* [pc, ep, language, lang, episode, status, primarycalls], pc
                \* "idle" or the primary-source call it waits for
pageVars == <<cname, req, answer, origin, panswer, provider, lreq>>

(***************************************************************************)
(* app/cache.py                                                            *)
(***************************************************************************)
RECURSIVE IndexOfKey(_, _)
\* position of key k in the dict d, 0 when absent
IndexOfKey(d, k) ==
    IF d = <<>> THEN 0
    ELSE IF d[Len(d)].key = k THEN Len(d)
    ELSE IndexOfKey(SubSeq(d, 1, Len(d) - 1), k)

DictKeys(d) == {d[i].key : i \in 1..Len(d)}

\* self._data.pop(k, None)
DictPop(d, k) ==
    LET RECURSIVE Drop(_)
        Drop(s) == IF s = <<>> THEN <<>>
                   ELSE IF Head(s).key = k THEN Tail(s)
                   ELSE <<Head(s)>> \o Drop(Tail(s))
    IN Drop(d)

\* self._data[key] = entry: an existing key keeps its place, a new one is last
DictPut(d, e) ==
    LET i == IndexOfKey(d, e.key)
    IN IF i = 0 THEN Append(d, e) ELSE [d EXCEPT ![i] = e]

\* `entry.expires_at <= now` (cache.py:36 and :45)
IsExpiredOffByOne(e, now) == e.expires_at < now
IsExpired(e, now) == e.expires_at <= now

PurgeExpiredHead(d, now) ==
    IF d # <<>> /\ IsExpired(Head(d), now) THEN Tail(d) ELSE d

\* cache.py:45-47, the purge of expired entries
PurgeExpired(d, now) ==
    LET RECURSIVE Keep(_)
        Keep(s) == IF s = <<>> THEN <<>>
                   ELSE IF IsExpired(Head(s), now) THEN Keep(Tail(s))
                   ELSE <<Head(s)>> \o Keep(Tail(s))
    IN Keep(d)

\* cache.py:50-51, `while len(self._data) >= self._maxsize: pop(next(iter(...)))`.
\* next(iter({})) raises StopIteration, which happens when maxsize <= 0.
RECURSIVE SizeCapOffByOne(_, _)
SizeCapOffByOne(d, m) ==
    IF Len(d) > m
    THEN IF d = <<>> THEN [raised |-> TRUE, d |-> d]
         ELSE SizeCapOffByOne(Tail(d), m)
    ELSE [raised |-> FALSE, d |-> d]

RECURSIVE SizeCap(_, _)
SizeCap(d, m) ==
    IF Len(d) >= m
    THEN IF d = <<>> THEN [raised |-> TRUE, d |-> d]
         ELSE SizeCap(Tail(d), m)
    ELSE [raised |-> FALSE, d |-> d]

\* cache.py:53, `_Entry(expires_at=now + self._ttl, value=value)`
NewEntryOfKey(k, v, now, t) == [key |-> k, expires_at |-> now + t, value |-> k]
NewEntryNoTtl(k, v, now, t) == [key |-> k, expires_at |-> now, value |-> v]
NewEntry(k, v, now, t) == [key |-> k, expires_at |-> now + t, value |-> v]

GetUnderLockTouch(d, k, now) ==
    LET i == IndexOfKey(d, k)
    IN IF i = 0 THEN [ret |-> None, d |-> d, branch |-> "miss"]
       ELSE IF IsExpired(d[i], now)
            THEN [ret |-> None, d |-> DictPop(d, k), branch |-> "expired"]
            ELSE [ret |-> Some(d[i].value), d |-> Append(DictPop(d, k), d[i]),
                  branch |-> "hit"]

\* TTLCache.get under the lock (cache.py:32-39): <<return value, new dict, branch>>
GetUnderLock(d, k, now) ==
    LET i == IndexOfKey(d, k)
    IN IF i = 0 THEN [ret |-> None, d |-> d, branch |-> "miss"]
       ELSE IF IsExpired(d[i], now)
            THEN [ret |-> None, d |-> DictPop(d, k), branch |-> "expired"]
            ELSE [ret |-> Some(d[i].value), d |-> d, branch |-> "hit"]

SetUnderLockFirstWins(d, k, v, now, t, m) ==
    IF IndexOfKey(d, k) # 0
    THEN [raised |-> FALSE, d |-> d, evicted |-> 0, purged |-> 0]
    ELSE LET capped == SizeCap(PurgeExpired(d, now), m)
         IN  [raised |-> capped.raised,
              d |-> IF capped.raised THEN capped.d
                    ELSE DictPut(capped.d, NewEntry(k, v, now, t)),
              evicted |-> Len(PurgeExpired(d, now)) - Len(capped.d),
              purged |-> Len(d) - Len(PurgeExpired(d, now))]

\* TTLCache.set under the lock (cache.py:43-53)
SetUnderLock(d, k, v, now, t, m) ==
    LET purged == PurgeExpired(d, now)
        capped == SizeCap(purged, m)
    IN IF capped.raised
       THEN [raised |-> TRUE, d |-> capped.d, evicted |-> Len(purged) - Len(capped.d),
             purged |-> Len(d) - Len(purged)]
       ELSE [raised |-> FALSE, d |-> DictPut(capped.d, NewEntry(k, v, now, t)),
             evicted |-> Len(purged) - Len(capped.d),
             purged |-> Len(d) - Len(purged)]

NoOp == [op |-> "none", key |-> "", val |-> "", now |-> 0, branch |-> "",
         evicted |-> 0, purged |-> 0]

\* what a sequential caller has seen: `at` the time of the last stored set of
\* each key, `order` the keys in the store in the order the caller first put
\* them there (a set of a key that is in the store and unexpired is an
\* overwrite and keeps the key's place)
NoHist == [at |-> [k \in Keys |-> -1], atonce |-> FALSE, order |-> <<>>]

\* the state of a cache built by TTLCache(ttl_seconds=t, maxsize=m) (cache.py:24-28)
CacheInit(t, m, tr) ==
    /\ clock = 0
    /\ ttl = t
    /\ maxsize = m
    /\ data = <<>>
    /\ tpc = [x \in Threads |-> "idle"]
    /\ tkey = [x \in Threads |-> ""]
    /\ tval = [x \in Threads |-> ""]
    /\ tnow = [x \in Threads |-> 0]
    /\ tret = [x \in Threads |-> None]
    /\ last = NoOp
    /\ hist = NoHist
    /\ track = tr

\* time passes
Tick ==
    /\ clock < MaxClock
    /\ clock' = clock + 1
    /\ UNCHANGED <<ttl, maxsize, data, tpc, tkey, tval, tnow, tret, last, hist, track>>
    /\ UNCHANGED <<enrichVars, provVars, pageVars>>

\* a thread enters get(key): `now = time.monotonic()` (cache.py:31)
GetCall(t, k) ==
    /\ tpc[t] = "idle"
    /\ tpc' = [tpc EXCEPT ![t] = "get"]
    /\ tkey' = [tkey EXCEPT ![t] = k]
    /\ tnow' = [tnow EXCEPT ![t] = clock]
    /\ tret' = [tret EXCEPT ![t] = None]
    /\ UNCHANGED <<clock, ttl, maxsize, data, tval, last, hist, track>>
    /\ UNCHANGED <<enrichVars, provVars, pageVars>>

\* a thread enters get_or_set(key, factory): its get reads the clock (cache.py:56, :31)
GetOrSetCall(t, k) ==
    /\ tpc[t] = "idle"
    /\ tpc' = [tpc EXCEPT ![t] = "gos_get"]
    /\ tkey' = [tkey EXCEPT ![t] = k]
    /\ tnow' = [tnow EXCEPT ![t] = clock]
    /\ tret' = [tret EXCEPT ![t] = None]
    /\ UNCHANGED <<clock, ttl, maxsize, data, tval, last, hist, track>>
    /\ UNCHANGED <<enrichVars, provVars, pageVars>>

\* the body of get under the lock (cache.py:32-39); get_or_set returns what get
\* returned when that `is not None` (cache.py:57-58) and goes on to the factory
\* otherwise, a cached None included
GetLocked(t) ==
    /\ tpc[t] \in {"get", "gos_get"}
    /\ LET r == GetUnderLock(data, tkey[t], tnow[t])
       IN /\ data' = r.d
          /\ last' = IF track = "times"
                     THEN [op |-> "get", key |-> tkey[t], val |-> "", now |-> tnow[t],
                           branch |-> r.branch, evicted |-> 0, purged |-> 0]
                     ELSE [NoOp EXCEPT !.op = "get", !.branch = r.branch]
          /\ hist' = IF /\ track = "times" /\ tpc[t] = "get" /\ r.branch = "hit"
                        /\ last.op = "set" /\ last.key = tkey[t]
                        /\ tnow[t] = last.now
                     THEN [hist EXCEPT !.atonce = TRUE]
                     ELSE IF track = "order"
                     THEN LET Kept(x) == IndexOfKey(r.d, x) # 0
                          IN [hist EXCEPT !.order = SelectSeq(@, Kept)]
                     ELSE hist
          /\ IF tpc[t] = "gos_get" /\ (r.ret = None \/ r.ret = Some(NoneValue))
             THEN /\ tpc' = [tpc EXCEPT ![t] = "gos_factory"]
                  /\ UNCHANGED <<tret, tkey, tnow>>
             ELSE /\ tpc' = [tpc EXCEPT ![t] = "idle"]
                  /\ tret' = [tret EXCEPT ![t] = r.ret]
                  /\ tkey' = [tkey EXCEPT ![t] = ""]
                  /\ tnow' = [tnow EXCEPT ![t] = 0]
    /\ UNCHANGED <<clock, ttl, maxsize, tval, track>>
    /\ UNCHANGED <<enrichVars, provVars, pageVars>>

\* factory() returns v and set(key, v) reads the clock (cache.py:59-60, :42)
GetOrSetFactory(t, v) ==
    /\ tpc[t] = "gos_factory"
    /\ tpc' = [tpc EXCEPT ![t] = "gos_set"]
    /\ tval' = [tval EXCEPT ![t] = v]
    /\ tnow' = [tnow EXCEPT ![t] = clock]
    /\ UNCHANGED <<clock, ttl, maxsize, data, tkey, tret, last, hist, track>>
    /\ UNCHANGED <<enrichVars, provVars, pageVars>>

\* a thread enters set(key, value): `now = time.monotonic()` (cache.py:42)
SetCall(t, k, v) ==
    /\ tpc[t] = "idle"
    /\ tpc' = [tpc EXCEPT ![t] = "set"]
    /\ tkey' = [tkey EXCEPT ![t] = k]
    /\ tval' = [tval EXCEPT ![t] = v]
    /\ tnow' = [tnow EXCEPT ![t] = clock]
    /\ tret' = [tret EXCEPT ![t] = None]
    /\ UNCHANGED <<clock, ttl, maxsize, data, last, hist, track>>
    /\ UNCHANGED <<enrichVars, provVars, pageVars>>

\* the body of set under the lock (cache.py:43-53); get_or_set then returns the
\* factory's value (cache.py:61)
SetLocked(t) ==
    /\ tpc[t] \in {"set", "gos_set"}
    /\ LET r == SetUnderLock(data, tkey[t], tval[t], tnow[t], ttl, maxsize)
           br == IF r.raised THEN "raised" ELSE "stored"
       IN /\ data' = r.d
          /\ last' = IF track = "times"
                     THEN [op |-> "set", key |-> tkey[t], val |-> tval[t],
                           now |-> tnow[t], branch |-> br, evicted |-> r.evicted,
                           purged |-> 0]
                     ELSE [NoOp EXCEPT !.op = "set", !.branch = br,
                                       !.evicted = r.evicted,
                                       !.purged = IF track = "order" THEN r.purged
                                                  ELSE 0]
          /\ hist' = IF track = "times" /\ ~r.raised
                     THEN [hist EXCEPT !.at[tkey[t]] = tnow[t]]
                     ELSE IF track = "order" /\ ~r.raised
                     THEN LET present == IndexOfKey(PurgeExpired(data, tnow[t]),
                                                    tkey[t]) # 0
                              Kept(x) == /\ IndexOfKey(r.d, x) # 0
                                         /\ x = tkey[t] => present
                              kept == SelectSeq(hist.order, Kept)
                          IN [hist EXCEPT
                                !.order = IF present THEN kept
                                          ELSE Append(kept, tkey[t])]
                     ELSE hist
          /\ tret' = [tret EXCEPT ![t] =
                         IF tpc[t] = "gos_set" /\ ~r.raised THEN Some(tval[t]) ELSE None]
    /\ tpc' = [tpc EXCEPT ![t] = "idle"]
    /\ tkey' = [tkey EXCEPT ![t] = ""]
    /\ tval' = [tval EXCEPT ![t] = ""]
    /\ tnow' = [tnow EXCEPT ![t] = 0]
    /\ UNCHANGED <<clock, ttl, maxsize, track>>
    /\ UNCHANGED <<enrichVars, provVars, pageVars>>

\* the calls of the threads T on the keys K
CacheNext(T, K) ==
    \/ Tick
    \/ \E t \in T, k \in K : GetCall(t, k)
    \/ \E t \in T, k \in K : GetOrSetCall(t, k)
    \/ \E t \in T : GetLocked(t)
    \/ \E t \in T, v \in Vals : GetOrSetFactory(t, v)
    \/ \E t \in T, k \in K, v \in Vals : SetCall(t, k, v)
    \/ \E t \in T : SetLocked(t)

(***************************************************************************)
(* Enrichment providers: utils.py.  A decoded JSON value, and a Python     *)
(* value a provider returns, is a record [t, v] with t its type; floats    *)
(* are counted in hundredths.  Raised stands for an exception on its way   *)
(* up: every operation on it yields it again.                              *)
(***************************************************************************)
Names == {"n1", "n2", "n3"}
Functions == {"get_jikan_image", "get_jikan_total_episodes",
              "get_jikan_rating", "get_anilist_score", "get_kitsu_age_rating"}

JNull == [t |-> "none", v |-> 0]
JBool(b) == [t |-> "bool", v |-> b]
JInt(n) == [t |-> "int", v |-> n]
JFloat(h) == [t |-> "float", v |-> h]
JStr(s) == [t |-> "str", v |-> s]
JList(q) == [t |-> "list", v |-> q]
JDict(f) == [t |-> "dict", v |-> f]
PyTuple(q) == [t |-> "tuple", v |-> q]
Raised == [t |-> "raise", v |-> 0]

\* bool(x)
Truth(x) ==
    CASE x.t = "none" -> FALSE
      [] x.t = "bool" -> x.v
      [] x.t \in {"int", "float"} -> x.v # 0
      [] x.t \in {"str", "list", "tuple"} -> x.v # <<>>
      [] x.t = "dict" -> DOMAIN x.v # {}

\* x.get(k, d): only a dict has it
PyGetDefault(x, k, d) ==
    IF x.t = "raise" THEN x
    ELSE IF x.t # "dict" THEN Raised
    ELSE IF k \in DOMAIN x.v THEN x.v[k] ELSE d

PyGet(x, k) == PyGetDefault(x, k, JNull)

\* x[k] for a string k
PyItem(x, k) ==
    IF x.t = "raise" THEN x
    ELSE IF x.t = "dict" /\ k \in DOMAIN x.v THEN x.v[k] ELSE Raised

\* x[0]
PyItem0(x) ==
    IF x.t = "raise" THEN x
    ELSE IF x.t = "list" /\ x.v # <<>> THEN x.v[1]
    ELSE IF x.t = "str" /\ x.v # <<>> THEN JStr(<<x.v[1]>>)
    ELSE Raised

\* a or b
PyOr(a, b) == IF a.t = "raise" THEN a ELSE IF Truth(a) THEN a ELSE b

\* `if c: a` ... `return b`
PyIf(c, a, b) == IF c.t = "raise" THEN c ELSE IF Truth(c) THEN a ELSE b

\* isinstance(x, int) and isinstance(x, (int, float)): bool is an int
IsInt(x) == x.t \in {"int", "bool"}
IsNumber(x) == x.t \in {"int", "bool", "float"}

\* int(x) and float(x) of a number
PyInt(x) == IF x.t = "bool" THEN (IF x.v THEN 1 ELSE 0) ELSE x.v
PyFloat(x) == IF x.t = "float" THEN x.v ELSE 100 * PyInt(x)

RECURSIVE IntStr(_)
IntStr(n) ==
    LET Digits == <<"0", "1", "2", "3", "4", "5", "6", "7", "8", "9">>
    IN  IF n < 0 THEN <<"-">> \o IntStr(0 - n)
        ELSE IF n < 10 THEN <<Digits[n + 1]>>
        ELSE IntStr(n \div 10) \o <<Digits[(n % 10) + 1]>>

\* str(x)
PyStr(x) ==
    CASE x.t = "str" -> x.v
      [] x.t = "int" -> IntStr(x.v)
      [] x.t = "bool" -> IF x.v THEN <<"T", "r", "u", "e">>
                         ELSE <<"F", "a", "l", "s", "e">>
      [] x.t = "none" -> <<"N", "o", "n", "e">>
      [] x.t = "list" -> <<"[", "]">>
      [] x.t = "dict" -> <<"{", "}">>

UpperChar(c) ==
    CASE c = "g" -> "G"
      [] c = "p" -> "P"
      [] c = "r" -> "R"
      [] c = "x" -> "X"
      [] OTHER -> c

UpperAsIs(s) == s

Upper(s) == [i \in 1..Len(s) |-> UpperChar(s[i])]

\* session.get / session.post, raise_for_status() and response.json()
HttpJson(u) == IF u.kind = "ok" THEN u.body ELSE Raised

\* `except Exception: return None`
ExceptNonePropagates(r) == r

ExceptNone(r) == IF r.t = "raise" THEN JNull ELSE r

ExceptNoneTuple(r) ==
    IF r.t = "raise" THEN PyTuple(<<JNull, JNull, JNull>>) ELSE r

get_jikan_image(u) ==
    LET doc == HttpJson(u)
        images == PyItem(PyItem(PyItem0(PyItem(doc, "data")), "images"), "jpg")
    IN  ExceptNone(
            PyIf(PyGet(doc, "data"),
                 PyOr(PyGet(images, "large_image_url"),
                      PyGet(images, "image_url")),
                 JNull))

get_jikan_total_episodes(u) ==
    LET doc == HttpJson(u)
        ep == PyGet(PyItem0(PyItem(doc, "data")), "episodes")
    IN  ExceptNone(
            PyIf(PyGet(doc, "data"),
                 IF ep.t = "raise" THEN ep
                 ELSE IF IsInt(ep) THEN ep ELSE JNull,
                 JNull))

get_jikan_rating(u) ==
    LET doc == HttpJson(u)
        item == PyItem0(PyItem(doc, "data"))
        score == PyGet(item, "score")
        scored_by == PyGet(item, "scored_by")
        rating_str == PyGet(item, "rating")
    IN  ExceptNoneTuple(
            PyIf(PyGet(doc, "data"),
                 IF score.t = "raise" THEN score
                 ELSE PyTuple(<<IF IsNumber(score) THEN JFloat(PyFloat(score))
                                ELSE JNull,
                                IF IsInt(scored_by) THEN JInt(PyInt(scored_by))
                                ELSE JNull,
                                IF rating_str.t # "none"
                                THEN JStr(PyStr(rating_str)) ELSE JNull>>),
                 PyTuple(<<JNull, JNull, JNull>>)))

get_anilist_score(u) ==
    LET doc == HttpJson(u)
        media == PyGet(PyGetDefault(doc, "data", JDict(<<>>)), "Media")
        score100 == PyOr(PyGet(media, "averageScore"), PyGet(media, "meanScore"))
    IN  ExceptNone(
            PyIf(media,
                 IF score100.t = "raise" THEN score100
                 ELSE IF IsNumber(score100)
                      THEN JFloat(PyFloat(score100) \div 10) ELSE JNull,
                 JNull))

KitsuMapping ==
    << [code |-> <<"G">>,
        label |-> <<"G", " ", "-", " ", "A", "l", "l", " ", "A", "g", "e", "s">>],
       [code |-> <<"P", "G">>,
        label |-> <<"P", "G", " ", "-", " ", "C", "h", "i", "l", "d", "r", "e", "n">>],
       [code |-> <<"R">>,
        label |-> <<"R", " ", "-", " ", "1", "7", "+">>],
       [code |-> <<"R", "1", "8">>,
        label |-> <<"R", "1", "8", "+", " ", "-", " ", "A", "d", "u", "l", "t",
                    "s", " ", "O", "n", "l", "y">>] >>

\* mapping.get(code, default)
MappingGet(code, default) ==
    IF \E i \in DOMAIN KitsuMapping : KitsuMapping[i].code = code
    THEN KitsuMapping[CHOOSE i \in DOMAIN KitsuMapping :
                         KitsuMapping[i].code = code].label
    ELSE default

get_kitsu_age_rating(u) ==
    LET doc == HttpJson(u)
        attrs == PyGetDefault(PyItem0(PyItem(doc, "data")), "attributes",
                              JDict(<<>>))
        rating == PyGet(attrs, "ageRating")
    IN  ExceptNone(
            PyIf(PyGet(doc, "data"),
                 PyIf(rating,
                      JStr(MappingGet(Upper(PyStr(rating)), PyStr(rating))),
                      JNull),
                 JNull))

\* upstream outcomes: what the HTTP exchange can end in
Failed(k) == [kind |-> k, body |-> JNull]
Ok(b) == [kind |-> "ok", body |-> b]
Failures ==
    <<Failed("transport"), Failed("timeout"), Failed("status"), Failed("badjson")>>

UrlLarge == <<"h", "t", "t", "p", "s", ":", "/", "/", "j">>
UrlSmall == <<"h", "t", "t", "p", "s", ":", "/", "/", "s">>

JikanItem(j, ep, sc, by, ra) ==
    JDict([data |-> JList(<<JDict([images |-> JDict([jpg |-> j]),
                                   episodes |-> ep, score |-> sc,
                                   scored_by |-> by, rating |-> ra])>>)])

JikanBodies ==
    << JikanItem(JDict([large_image_url |-> JStr(UrlLarge),
                        image_url |-> JStr(UrlSmall)]),
                 JInt(24), JFloat(840), JInt(1000), JStr(<<"P", "G">>)),
       JikanItem(JDict([large_image_url |-> JNull, image_url |-> JStr(UrlSmall)]),
                 JNull, JNull, JNull, JNull),
       JikanItem(JDict([large_image_url |-> JStr(<<>>), image_url |-> JStr(<<>>)]),
                 JInt(0), JInt(8), JStr(<<"7">>), JInt(17)),
       JikanItem(JDict([large_image_url |-> JInt(42)]),
                 JInt(0 - 1), JStr(<<"8">>), JFloat(150), JBool(TRUE)),
       JikanItem(JDict(<<>>), JStr(<<"2", "4">>), JBool(TRUE), JBool(TRUE),
                 JList(<<>>)),
       JikanItem(JNull, JFloat(2400), JFloat(845), JInt(0), JStr(<<>>)),
       JikanItem(JList(<<>>), JBool(TRUE), JInt(0), JNull, JDict(<<>>)),
       JikanItem(JStr(<<"x">>), JList(<<JInt(24)>>), JNull, JInt(7), JBool(FALSE)),
       JDict([data |-> JList(<<JDict([images |-> JNull])>>)]),
       JDict([data |-> JList(<<JDict([images |-> JDict(<<>>)])>>)]),
       JDict([data |-> JList(<<JDict(<<>>)>>)]),
       JDict([data |-> JList(<<JNull>>)]),
       JDict([data |-> JList(<<JInt(3)>>)]),
       JDict([data |-> JList(<<>>)]),
       JDict([data |-> JNull]),
       JDict([data |-> JDict(<<>>)]),
       JDict([data |-> JDict([k |-> JInt(1)])]),
       JDict([data |-> JStr(<<"a", "b">>)]),
       JDict([data |-> JInt(5)]),
       JDict([status |-> JInt(429)]),
       JDict(<<>>),
       JList(<<>>),
       JList(<<JDict([data |-> JList(<<>>)])>>),
       JStr(<<"x">>),
       JInt(7),
       JNull >>

Media(avg, mean) ==
    JDict([data |-> JDict([Media |-> JDict([averageScore |-> avg,
                                            meanScore |-> mean])])])

AniListBodies ==
    << Media(JInt(84), JInt(80)),
       Media(JNull, JInt(80)),
       Media(JInt(0), JInt(75)),
       Media(JNull, JNull),
       Media(JFloat(8450), JInt(80)),
       Media(JStr(<<"8", "4">>), JInt(80)),
       Media(JBool(TRUE), JInt(80)),
       Media(JList(<<JInt(84)>>), JInt(80)),
       Media(JNull, JStr(<<"8", "0">>)),
       JDict([data |-> JDict([Media |-> JDict([averageScore |-> JInt(84)])])]),
       JDict([data |-> JDict([Media |-> JDict(<<>>)])]),
       JDict([data |-> JDict([Media |-> JNull])]),
       JDict([data |-> JDict([Media |-> JList(<<>>)])]),
       JDict([data |-> JDict([Media |-> JList(<<JInt(1)>>)])]),
       JDict([data |-> JDict([Media |-> JStr(<<"x">>)])]),
       JDict([data |-> JDict([Media |-> JInt(1)])]),
       JDict([data |-> JDict(<<>>)]),
       JDict([data |-> JNull, errors |-> JList(<<JStr(<<"x">>)>>)]),
       JDict([data |-> JList(<<>>)]),
       JDict([data |-> JStr(<<"x">>)]),
       JDict(<<>>),
       JList(<<>>),
       JStr(<<"x">>),
       JInt(7),
       JNull >>

Kitsu(r) ==
    JDict([data |-> JList(<<JDict([attributes |-> JDict([ageRating |-> r])])>>)])

KitsuBodies ==
    << Kitsu(JStr(<<"P", "G">>)),
       Kitsu(JStr(<<"G">>)),
       Kitsu(JStr(<<"R">>)),
       Kitsu(JStr(<<"R", "1", "8">>)),
       Kitsu(JStr(<<"p", "g">>)),
       Kitsu(JStr(<<"r", "1", "8">>)),
       Kitsu(JStr(<<"x">>)),
       Kitsu(JStr(<<"P", "G", "1", "3">>)),
       Kitsu(JStr(<<>>)),
       Kitsu(JNull),
       Kitsu(JInt(17)),
       Kitsu(JInt(0)),
       Kitsu(JBool(TRUE)),
       Kitsu(JBool(FALSE)),
       Kitsu(JList(<<>>)),
       JDict([data |-> JList(<<JDict([attributes |-> JDict(<<>>)])>>)]),
       JDict([data |-> JList(<<JDict([attributes |-> JNull])>>)]),
       JDict([data |-> JList(<<JDict([attributes |-> JStr(<<"x">>)])>>)]),
       JDict([data |-> JList(<<JDict([attributes |-> JList(<<>>)])>>)]),
       JDict([data |-> JList(<<JDict(<<>>)>>)]),
       JDict([data |-> JList(<<JNull>>)]),
       JDict([data |-> JList(<<>>)]),
       JDict([data |-> JNull]),
       JDict([data |-> JDict([k |-> JInt(1)])]),
       JDict([data |-> JStr(<<"a">>)]),
       JDict([errors |-> JList(<<>>)]),
       JDict(<<>>),
       JList(<<>>),
       JStr(<<"x">>),
       JNull >>

RECURSIVE OkAll(_)
OkAll(bodies) ==
    IF Len(bodies) = 0 THEN <<>> ELSE <<Ok(Head(bodies))>> \o OkAll(Tail(bodies))

\* the outcomes the upstream of a provider function can produce; the
\* well-formed answer comes first after the failures
JikanOutcomes == Failures \o OkAll(JikanBodies)
AniListOutcomes == Failures \o OkAll(AniListBodies)
KitsuOutcomes == Failures \o OkAll(KitsuBodies)

Outcomes(f) ==
    CASE f \in {"get_jikan_image", "get_jikan_total_episodes",
                "get_jikan_rating"} -> JikanOutcomes
      [] f = "get_anilist_score" -> AniListOutcomes
      [] f = "get_kitsu_age_rating" -> KitsuOutcomes

\* the undecorated function f on upstream outcome u
Body(f, u) ==
    CASE f = "get_jikan_image" -> get_jikan_image(u)
      [] f = "get_jikan_total_episodes" -> get_jikan_total_episodes(u)
      [] f = "get_jikan_rating" -> get_jikan_rating(u)
      [] f = "get_anilist_score" -> get_anilist_score(u)
      [] f = "get_kitsu_age_rating" -> get_kitsu_age_rating(u)

\* every function on every outcome of its upstream
Results == [f \in Functions |-> [k \in DOMAIN Outcomes(f) |-> Body(f, Outcomes(f)[k])]]

\* functools.lru_cache: the oldest entry leaves when the table is full
LruPut(m, e) == IF Len(m) >= LruMaxsize THEN Tail(m) \o <<e>> ELSE m \o <<e>>

LruNoTouch(m, i) == m

LruTouch(m, i) ==
    SubSeq(m, 1, i - 1) \o SubSeq(m, i + 1, Len(m)) \o <<m[i]>>

NoProviderCall ==
    [name |-> "", outcome |-> 0, hit |-> FALSE, raised |-> FALSE, val |-> JNull]

ProvOff == fn = "none" /\ memo = <<>> /\ pcall = NoProviderCall

ProvInit == fn \in Functions /\ memo = <<>> /\ pcall = NoProviderCall

\* one call fn(name) through the lru_cache wrapper, the upstream answering
\* with its k-th outcome when the call is not served from the table
ProviderCall(name, k) ==
    /\ fn \in Functions
    /\ k \in 1..Len(Outcomes(fn))
    /\ LET at == {i \in DOMAIN memo : memo[i].name = name}
       IN  IF at # {}
           THEN LET i == CHOOSE i \in at : TRUE
                IN  /\ k = 1
                    /\ memo' = LruTouch(memo, i)
                    /\ pcall' = [name |-> name, outcome |-> 0, hit |-> TRUE,
                                 raised |-> FALSE, val |-> memo[i].val]
           ELSE LET r == Results[fn][k]
                IN  /\ memo' = IF r.t = "raise" THEN memo
                               ELSE LruPut(memo, [name |-> name, val |-> r])
                    /\ pcall' = [name |-> name, outcome |-> k, hit |-> FALSE,
                                 raised |-> (r.t = "raise"),
                                 val |-> IF r.t = "raise" THEN JNull ELSE r]
    /\ fn' = fn
    /\ UNCHANGED <<cacheVars, enrichVars, pageVars>>

ProvNext == \E name \in Names, k \in 1..Len(Outcomes(fn)) : ProviderCall(name, k)

(***************************************************************************)
(* Page-level enrichment: routes/search.py, routes/anime.py (browse) and   *)
(* routes/popular.py.  A string is a sequence of one-character strings, so *)
(* that strip(), lower() and startswith() are computed, not assumed.       *)
(***************************************************************************)
Providers == {"image", "episodes", "score", "classification"}
\* the providers whose upstream fails during a request: none, one, or all
Downs == {{}} \cup {{p} : p \in Providers} \cup {Providers}

ImgAbs == <<"h", "t", "t", "p", ":", "/", "/", "a">>
ImgUpper == <<" ", "H", "T", "T", "P", ":", "/", "/", "b">>
ImgRel == <<"/", "c", ".", "j", "p", "g">>
ImgEmpty == <<>>

\* str.strip(): leading, then trailing whitespace
RECURSIVE Strip(_)
Strip(s) ==
    IF s # <<>> /\ Head(s) \in {" ", "\t", "\n"} THEN Strip(Tail(s))
    ELSE IF s # <<>> /\ s[Len(s)] \in {" ", "\t", "\n"}
    THEN Strip(SubSeq(s, 1, Len(s) - 1))
    ELSE s

LowerChar(c) ==
    CASE c = "H" -> "h"
      [] c = "T" -> "t"
      [] c = "P" -> "p"
      [] c = "G" -> "g"
      [] c = "S" -> "s"
      [] c = "U" -> "u"
      [] c = "B" -> "b"
      [] c = "D" -> "d"
      [] OTHER -> c

Lower(s) == [i \in 1..Len(s) |-> LowerChar(s[i])]

StartsWith(s, p) == Len(s) >= Len(p) /\ SubSeq(s, 1, Len(p)) = p

\* Python truth value of an Optional[str]
Truthy(o) == o # None /\ o[1] # <<>>

Min(a, b) == IF a <= b THEN a ELSE b
MaxOf(S) == CHOOSE x \in S : \A y \in S : y <= x

\* the entries a primary source can return: image is an Optional string,
\* available_episodes an Optional dict of Optional ints
Counts(s, d) == Some([sub |-> s, dub |-> d])
Kinds ==
    << [image |-> None, available_episodes |-> Counts(Some(12), Some(10))],
       [image |-> Some(ImgAbs), available_episodes |-> None],
       [image |-> Some(ImgRel), available_episodes |-> Counts(None, Some(24))],
       [image |-> Some(ImgEmpty), available_episodes |-> Counts(None, None)],
       [image |-> Some(ImgUpper), available_episodes |-> Counts(Some(3), Some(10))] >>

Entry(j, k) ==
    [identifier |-> j, name |-> 10 + j, image |-> Kinds[k].image,
     languages |-> Some(<<"sub">>),
     available_episodes |-> Kinds[k].available_episodes]


\* pages of consecutive kinds of entry (s = 1), and pages whose entries all
\* need every provider (s = 0)
PageOf(n, o, s) ==
    [j \in 1..n |-> Entry(j, ((o + s * (j - 1)) % Len(Kinds)) + 1)]
Pages ==
    {PageOf(n, o, 1) : n \in 0..MaxPage, o \in 0..(Len(Kinds) - 1)}
        \cup {PageOf(n, 3, 0) : n \in 0..MaxPage}
        \cup {[PageOf(n, 0, 1) EXCEPT ![n].languages = None] : n \in 1..MaxPage}

\* the limits of a search: one that cuts the longest page, one that does not
Limits == {MaxPage - 1, MaxPage}


\* the provider function behind each enriched field
FunctionOf(p) ==
    CASE p = "image" -> "get_jikan_image"
      [] p = "episodes" -> "get_jikan_total_episodes"
      [] p = "score" -> "get_anilist_score"
      [] p = "classification" -> "get_kitsu_age_rating"

\* the upstream outcome of provider p during a request: when p is down every
\* call fails (a transport error for the images, a timeout for the episode
\* counts, a bad status for the scores, an unparsable body for the
\* classifications), otherwise every call gets the well-formed answer
FailureOf(p) ==
    CASE p = "image" -> 1
      [] p = "episodes" -> 2
      [] p = "score" -> 3
      [] p = "classification" -> 4

Upstream(p, dn) == IF p \in dn THEN {FailureOf(p)} ELSE {Len(Failures) + 1}

\* one call of provider p as the handler sees it: an Optional value
CallProvider(p, k) ==
    LET r == Results[FunctionOf(p)][k]
    IN  [raised |-> (r.t = "raise"),
         res |-> IF r.t \in {"raise", "none"} THEN None ELSE Some(r.v)]

\* the pre-pass test of browse and popular
PrepassNeedsImage(img) ==
    ~Truthy(img) \/ ~StartsWith(Lower(Strip(img[1])), <<"h", "t", "t", "p">>)

\* `if not image_url` of search
SearchNeedsImageAlways(img) == TRUE

SearchNeedsImage(img) == ~Truthy(img)

\* total_eps of build_result / build_card before any provider is asked
PrimaryTotalSubFirst(avail) ==
    IF avail = None THEN None
    ELSE IF avail[1].sub # None THEN avail[1].sub ELSE avail[1].dub

PrimaryTotal(avail) ==
    IF avail = None THEN None
    ELSE LET candidates == {c \in {avail[1].sub, avail[1].dub} : c # None}
         IN  IF candidates = {} THEN None
             ELSE Some(MaxOf({c[1] : c \in candidates}))

NeededScoreFirst(ep, item) == {"score"}

\* the provider calls an entry's pipeline starts once it holds the semaphore
Needed(ep, item) ==
    {"score", "classification"}
        \cup (IF PrimaryTotal(item.available_episodes) = None
              THEN {"episodes"} ELSE {})
        \cup (IF ep = "search" /\ SearchNeedsImage(item.image)
              THEN {"image"} ELSE {})

SemaphoreAlwaysFree(h) == TRUE

\* asyncio.Semaphore: a permit is free while fewer than its value are held
SemaphoreFree(h) == h < SemValue

WorkerAlwaysFree(n) == TRUE

\* ThreadPoolExecutor: a submission runs once one of max_workers is idle
WorkerFree(n) == n < MaxWorkers

\* the entries inside `async with semaphore`
HoldersNeverReleased == {i \in DOMAIN est : est[i] \in {"running", "done"}}
Holders == {i \in DOMAIN est : est[i] = "running"}
Running ==
    {i \in DOMAIN calls : rpc = "prepass" /\ calls[i]["image"].st = "pending"}
InFlight ==
    Cardinality({c \in (DOMAIN calls) \X Providers :
                    calls[c[1]][c[2]].st = "pending"})

NoCall == [st |-> "skipped", res |-> None]
NoResp == [status |-> 0, total_results |-> 0, data |-> <<>>]

\* the image the pre-pass leaves on an item after its future resolved
PrepassImage(ep, old, res) ==
    IF Truthy(res) THEN res ELSE IF ep = "browse" THEN None ELSE old

\* building the response entry raises: a provider call raised out of the
\* entry's gather, or the item has no languages to iterate (search) or to
\* look up and validate (browse, popular)
BuildNeverRaises(item, c) == FALSE
BuildRaises(item, c) ==
    \/ item.languages = None
    \/ \E p \in Providers : c[p].st = "raised"

\* the response entry built from an item and its fallbacks
MergeEntry(ep, item, c) ==
    LET total == PrimaryTotal(item.available_episodes)
    IN  [identifier |-> item.identifier,
         name |-> item.name,
         languages |-> IF item.languages = None THEN <<>> ELSE item.languages[1],
         image |-> IF ep = "search" /\ ~Truthy(item.image)
                   THEN c["image"].res ELSE item.image,
         total_episode |-> IF total = None THEN c["episodes"].res ELSE total,
         rating_score |-> c["score"].res,
         rating_classification |-> c["classification"].res]

EnrichOff ==
    /\ endpoint = "none" /\ rpc = "off" /\ down = {}
    /\ primary = <<>> /\ limit = 0 /\ items = <<>> /\ calls = <<>>
    /\ est = <<>> /\ out = <<>> /\ ptr = 0 /\ resp = NoResp
    /\ reordered = FALSE

EnrichInit ==
    /\ endpoint = "none" /\ rpc = "idle" /\ down \in Downs
    /\ primary = <<>> /\ limit = 0 /\ items = <<>> /\ calls = <<>>
    /\ est = <<>> /\ out = <<>> /\ ptr = 0 /\ resp = NoResp
    /\ reordered = FALSE

\* the futures of the pre-pass, in submission order
Futures == {i \in DOMAIN calls : calls[i]["image"].st # "skipped"}
NextFuture == {i \in Futures : i > ptr /\ \A j \in Futures : j > ptr => i <= j}

\* the handler up to its first wait: the page of the primary source (or of
\* the cache), the slice of search, the submissions of the pre-pass
Request(ep, pg, lim) ==
    /\ rpc = "idle"
    /\ LET its == IF ep = "search" THEN SubSeq(pg, 1, Min(lim, Len(pg))) ELSE pg
           cs == [i \in 1..Len(its) |->
                    [p \in Providers |->
                        IF ep # "search" /\ p = "image"
                           /\ PrepassNeedsImage(its[i].image)
                        THEN [st |-> "queued", res |-> None]
                        ELSE NoCall]]
       IN  /\ items' = its
           /\ calls' = cs
           /\ est' = [i \in 1..Len(its) |-> "waiting"]
           /\ out' = [i \in 1..Len(its) |-> None]
           /\ rpc' = IF \E i \in 1..Len(its) : cs[i]["image"].st = "queued"
                     THEN "prepass" ELSE "gather"
    /\ endpoint' = ep
    /\ primary' = pg
    /\ limit' = lim
    /\ UNCHANGED <<down, ptr, resp, reordered>>
    /\ UNCHANGED <<cacheVars, provVars, pageVars>>

\* a worker thread of the executor takes the oldest queued submission
PreStart(i) ==
    /\ rpc = "prepass"
    /\ i \in DOMAIN calls
    /\ calls[i]["image"].st = "queued"
    /\ \A j \in DOMAIN calls : calls[j]["image"].st = "queued" => i <= j
    /\ WorkerFree(Cardinality(Running))
    /\ calls' = [calls EXCEPT ![i]["image"].st = "pending"]
    /\ UNCHANGED <<endpoint, rpc, down, primary, limit, items, est, out, ptr,
                   resp, reordered>>
    /\ UNCHANGED <<cacheVars, provVars, pageVars>>

\* get_jikan_image returns in its worker thread
PreFinish(i) ==
    /\ rpc = "prepass"
    /\ i \in DOMAIN calls
    /\ calls[i]["image"].st = "pending"
    /\ \E k \in Upstream("image", down) :
         LET r == CallProvider("image", k)
         IN  calls' = [calls EXCEPT ![i]["image"] =
                        [st |-> IF r.raised THEN "raised" ELSE "returned",
                         res |-> r.res]]
    /\ UNCHANGED <<endpoint, rpc, down, primary, limit, items, est, out, ptr,
                   resp, reordered>>
    /\ UNCHANGED <<cacheVars, provVars, pageVars>>

\* the handler takes future.result() of the next future and writes the item
PreCollect(i) ==
    /\ rpc = "prepass"
    /\ i \in NextFuture
    /\ calls[i]["image"].st \in {"returned", "raised"}
    /\ IF calls[i]["image"].st = "raised"
       THEN /\ rpc' = "error"
            /\ resp' = [NoResp EXCEPT !.status = 500]
            /\ UNCHANGED <<items, ptr>>
       ELSE /\ items' = [items EXCEPT ![i].image =
                            PrepassImage(endpoint, @, calls[i]["image"].res)]
            /\ ptr' = i
            /\ rpc' = IF \E j \in Futures : j > i THEN "prepass" ELSE "gather"
            /\ resp' = resp
    /\ UNCHANGED <<endpoint, down, primary, limit, calls, est, out, reordered>>
    /\ UNCHANGED <<cacheVars, provVars, pageVars>>

\* build_result / build_card enters `async with semaphore` and creates its
\* provider calls; waiters are woken first come, first served
Acquire(i) ==
    /\ rpc = "gather"
    /\ i \in DOMAIN est
    /\ est[i] = "waiting"
    /\ \A j \in DOMAIN est : est[j] = "waiting" => i <= j
    /\ SemaphoreFree(Cardinality(Holders))
    /\ est' = [est EXCEPT ![i] = "running"]
    /\ calls' = [calls EXCEPT ![i] =
                    [p \in Providers |->
                        IF p \in Needed(endpoint, items[i])
                        THEN [st |-> "pending", res |-> None]
                        ELSE calls[i][p]]]
    /\ UNCHANGED <<endpoint, rpc, down, primary, limit, items, out, ptr, resp,
                   reordered>>
    /\ UNCHANGED <<cacheVars, provVars, pageVars>>

\* one provider call of a running entry returns
CallReturn(i, p) ==
    /\ rpc = "gather"
    /\ i \in DOMAIN est
    /\ est[i] = "running"
    /\ calls[i][p].st = "pending"
    /\ \E k \in Upstream(p, down) :
         LET r == CallProvider(p, k)
         IN  calls' = [calls EXCEPT ![i][p] =
                        [st |-> IF r.raised THEN "raised" ELSE "returned",
                         res |-> r.res]]
    /\ UNCHANGED <<endpoint, rpc, down, primary, limit, items, est, out, ptr,
                   resp, reordered>>
    /\ UNCHANGED <<cacheVars, provVars, pageVars>>

\* the inner gather of an entry is complete: merge, release the semaphore,
\* and hand the entry to the outer gather under its own index
StoreByCompletion(o, i, e) ==
    LET k == CHOOSE j \in DOMAIN o : o[j] = None /\ \A h \in DOMAIN o : o[h] = None => j <= h
    IN  [o EXCEPT ![k] = Some(e)]

Store(o, i, e) == [o EXCEPT ![i] = Some(e)]

Build(i) ==
    /\ rpc = "gather"
    /\ i \in DOMAIN est
    /\ est[i] = "running"
    /\ \A p \in Providers : calls[i][p].st # "pending"
    /\ IF BuildRaises(items[i], calls[i])
       THEN /\ rpc' = "error"
            /\ resp' = [NoResp EXCEPT !.status = 500]
            /\ est' = [est EXCEPT ![i] = "raised"]
            /\ UNCHANGED <<out, reordered>>
       ELSE /\ out' = Store(out, i, MergeEntry(endpoint, items[i], calls[i]))
            /\ est' = [est EXCEPT ![i] = "done"]
            /\ reordered' = (reordered \/ \E j \in DOMAIN est : j > i /\ est[j] = "done")
            /\ UNCHANGED <<rpc, resp>>
    /\ UNCHANGED <<endpoint, down, primary, limit, items, calls, ptr>>
    /\ UNCHANGED <<cacheVars, provVars, pageVars>>

\* the outer gather is complete: SearchResponse / PaginatedResponse
Respond ==
    /\ rpc = "gather"
    /\ \A i \in DOMAIN est : est[i] = "done"
    /\ rpc' = "done"
    /\ resp' = [status |-> 200, total_results |-> Len(primary),
                data |-> [i \in DOMAIN out |-> out[i][1]]]
    /\ UNCHANGED <<endpoint, down, primary, limit, items, calls, est, out, ptr,
                   reordered>>
    /\ UNCHANGED <<cacheVars, provVars, pageVars>>

EnrichNext ==
    \/ \E pg \in Pages, lim \in Limits : Request("search", pg, lim)
    \/ \E pg \in Pages : Request("browse", pg, Len(pg))
    \/ \E pg \in Pages : Request("popular", pg, Len(pg))
    \/ \E i \in 1..MaxPage : PreStart(i)
    \/ \E i \in 1..MaxPage : PreFinish(i)
    \/ \E i \in 1..MaxPage : PreCollect(i)
    \/ \E i \in 1..MaxPage : Acquire(i)
    \/ \E i \in 1..MaxPage, p \in Providers : CallReturn(i, p)
    \/ \E i \in 1..MaxPage : Build(i)
    \/ Respond

(***************************************************************************)
(* app/routes: the handlers' use of SEARCH_CACHE and BROWSE_CACHE and of   *)
(* the primary source, one request after the other                         *)
(***************************************************************************)
\* the elements of a key tuple, by Python type
KeyPart(t, s, n) == [t |-> t, s |-> s, n |-> n]

\* `key = (query.strip().lower(),)`
SearchKeyRaw(query) == <<KeyPart("str", query, 0)>>
SearchKey(query) == <<KeyPart("str", Lower(Strip(query)), 0)>>

\* `genres_key = tuple(genres) if genres else None; key = (page, limit, genres_key)`
BrowseKey(page, lim, genres) ==
    <<KeyPart("int", <<>>, page), KeyPart("int", <<>>, lim),
      IF genres # None /\ genres[1] # <<>>
      THEN KeyPart("tuple", genres[1], 0) ELSE KeyPart("none", <<>>, 0)>>

PopularKeyUntagged(page, lim) ==
    <<KeyPart("int", <<>>, page), KeyPart("int", <<>>, lim),
      KeyPart("none", <<>>, 0)>>

\* `key = ("popular", page, limit)`
PopularKey(page, lim) ==
    <<KeyPart("str", <<"p", "o", "p", "u", "l", "a", "r">>, 0),
      KeyPart("int", <<>>, page), KeyPart("int", <<>>, lim)>>

\* the requests of the model
Queries ==
    { <<"h", "p">>, <<" ", "h", "P", "\t">>, <<"h", " ", "p">>, <<"g">> }
GenreLists == {None, Some(<<"a", "c">>), Some(<<"c", "a">>)}
PageNumbers == {1}

\* what the primary source returns: get_search a list, get_browse a dict
FrontPages == {PageOf(0, 0, 1), PageOf(2, 0, 1), PageOf(MaxPage, 2, 1)}
FrontDowns == {{}, Providers}

\* what each provider answers when the providers dn are down
Answers(dn) ==
    [p \in Providers |-> CallProvider(p, CHOOSE k \in Upstream(p, dn) : TRUE)]

\* one entry through the pre-pass and its pipeline, the providers answering
\* pa: the item as the pre-pass leaves it, the provider calls made, the
\* enriched entry
EnrichItem(ep, item, pa) ==
    LET pre == ep # "search" /\ PrepassNeedsImage(item.image)
        it1 == IF pre
               THEN [item EXCEPT !.image = PrepassImage(ep, @, pa["image"].res)]
               ELSE item
        made == Needed(ep, it1) \cup (IF pre THEN {"image"} ELSE {})
        c == [p \in Providers |->
                IF p \in made
                THEN [st |-> IF pa[p].raised THEN "raised" ELSE "returned",
                      res |-> pa[p].res]
                ELSE NoCall]
    IN  [item |-> it1, made |-> made, calls |-> c,
         raises |-> BuildRaises(it1, c),
         out |-> MergeEntry(ep, it1, c)]

NoReq == [pc |-> "idle", ep |-> "none", query |-> <<>>, page |-> 0,
          limit |-> 0, genres |-> None, key |-> <<>>]
NoAnswer == [status |-> 0, hit |-> FALSE, primarycalls |-> 0,
             providercalls |-> 0, data |-> <<>>, total |-> 0,
             has_next |-> FALSE, primaryraised |-> FALSE]

\* `except Exception as e: raise HTTPException(status_code=500, ...)`
ErrorAnswerPartial(n, r) ==
    [NoAnswer EXCEPT !.status = 200, !.primarycalls = n, !.primaryraised = r]
ErrorAnswer(n, r) ==
    [NoAnswer EXCEPT !.status = 500, !.primarycalls = n, !.primaryraised = r]

\* item["image"] = ... writes the dict the cache holds too
DictSetValue(d, k, v) ==
    [i \in 1..Len(d) |-> IF d[i].key = k THEN [d[i] EXCEPT !.value = v] ELSE d[i]]

\* history: for the entry of data at the same place, the request that stored
\* it and what the primary source had returned
OriginOf(d, old, oldd, k, rec) ==
    [i \in 1..Len(d) |->
        IF d[i].key = k /\ rec # None THEN rec[1]
        ELSE old[IndexOfKey(oldd, d[i].key)]]

\* utils.parse_language: the LanguageTypeEnum member, or ValueError raised
parse_language(language) ==
    IF Lower(language) = <<"s", "u", "b">> THEN "SUB"
    ELSE IF Lower(language) = <<"d", "u", "b">> THEN "DUB"
    ELSE "ValueError"

\* the language query parameter as it arrives: None when it is omitted
Languages ==
    { None, Some(<<"s", "u", "b">>), Some(<<"S", "U", "B">>),
      Some(<<"S", "u", "b">>), Some(<<"d", "u", "b">>), Some(<<"D", "u", "B">>),
      Some(<<"r", "a", "w">>), Some(<<"s", "u", "b", "s">>),
      Some(<<" ", "s", "u", "b">>), Some(<<>>) }

NoLang == [pc |-> "idle", ep |-> "none", language |-> None, lang |-> "",
           episode |-> [t |-> "none", v |-> 0], status |-> 0, primarycalls |-> 0]

PageOff ==
    /\ lreq = NoLang
    /\ cname = "none"
    /\ req = NoReq
    /\ answer = NoAnswer
    /\ origin = <<>>
    /\ panswer = [p \in Providers |-> [raised |-> FALSE, res |-> None]]
    /\ provider = [get_browse |-> TRUE, no_query |-> TRUE]

PageInit ==
    /\ lreq = NoLang
    /\ cname \in {"SEARCH_CACHE", "BROWSE_CACHE"}
    /\ req = NoReq
    /\ answer = NoAnswer
    /\ origin = <<>>
    /\ \E dn \in FrontDowns : panswer = Answers(dn)
    /\ \E b \in BOOLEAN : provider = [get_browse |-> b, no_query |-> b]

\* the handler from the cached or fresh value to its response: slice (search),
\* pre-pass (browse, popular), gather, response model.  d is the dict after
\* the get or the set.
Finish(r, value, hit, d) ==
    LET results == IF r.ep = "search" THEN value ELSE value.results
        its == IF r.ep = "search"
               THEN SubSeq(results, 1, Min(r.limit, Len(results)))
               ELSE results
        en == [i \in 1..Len(its) |-> EnrichItem(r.ep, its[i], panswer)]
        raised == \E i \in 1..Len(its) : en[i].raises
        written == IF r.ep = "search" THEN value
                   ELSE [value EXCEPT !.results = [i \in 1..Len(its) |-> en[i].item]]
        d2 == DictSetValue(d, r.key, written)
        ans ==
             [status |-> IF raised THEN 500 ELSE 200,
              hit |-> hit,
              primarycalls |-> IF hit THEN 0 ELSE 1,
              providercalls |->
                  Cardinality({c \in (1..Len(its)) \X Providers :
                                  c[2] \in en[c[1]].made}),
              data |-> IF raised THEN <<>> ELSE [i \in 1..Len(its) |-> en[i].out],
              total |-> IF raised THEN 0
                        ELSE IF r.ep = "search" THEN Len(results) ELSE r.page,
              has_next |-> IF raised \/ r.ep = "search" THEN FALSE
                           ELSE value.has_next,
              primaryraised |-> FALSE]
        rec == IF hit THEN None
               ELSE Some([at |-> clock, returned |-> value, req |-> r,
                          answer |-> ans])
    IN  /\ data' = d2
        /\ origin' = OriginOf(d2, origin, data, r.key, rec)
        /\ answer' = ans
        /\ req' = [r EXCEPT !.pc = "idle"]

\* `if cached is not None`
IsHitTruthy(got) == got.ret # None /\ got.ret[1] # <<>>
IsHit(got) == got.ret # None

\* a request arrives: the key, `cached = CACHE.get(key)`; on a hit the handler
\* runs to its response
ReqStart(ep, key, q, page, lim, g) ==
    /\ req.pc = "idle"
    /\ LET r == [pc |-> "primary", ep |-> ep, query |-> q, page |-> page,
                 limit |-> lim, genres |-> g, key |-> key]
           got == GetUnderLock(data, key, clock)
       IN  IF IsHit(got)
           THEN Finish(r, got.ret[1], TRUE, got.d)
           ELSE /\ data' = got.d
                /\ origin' = OriginOf(got.d, origin, data, key, None)
                /\ req' = r
                /\ answer' = NoAnswer
    /\ UNCHANGED <<clock, ttl, maxsize, tpc, tkey, tval, tnow, tret, last, hist,
                   track, cname, panswer, provider, lreq>>
    /\ UNCHANGED <<enrichVars, provVars>>

SearchRequest(q, lim) ==
    /\ cname = "SEARCH_CACHE"
    /\ ReqStart("search", SearchKey(q), q, 0, lim, None)

\* `raise HTTPException(status_code=501, ...)` inside the handler's `try`:
\* HTTPException is an Exception, `except Exception` catches it and raises the
\* handler's HTTPException(status_code=500, ...) in its place
Unsupported(ep) ==
    /\ req.pc = "idle"
    /\ req' = [NoReq EXCEPT !.ep = ep]
    /\ answer' = ErrorAnswer(0, FALSE)
    /\ UNCHANGED <<origin, cname, panswer, provider, lreq>>
    /\ UNCHANGED <<cacheVars, enrichVars, provVars>>

BrowseRequest(page, lim, g) ==
    /\ cname = "BROWSE_CACHE"
    /\ IF ~provider.get_browse
       THEN Unsupported("browse")
       ELSE ReqStart("browse", BrowseKey(page, lim, g), <<>>, page, lim, g)

PopularRequest(page, lim) ==
    /\ cname = "BROWSE_CACHE"
    /\ IF ~provider.get_browse /\ ~provider.no_query
       THEN Unsupported("popular")
       ELSE ReqStart("popular", PopularKey(page, lim), <<>>, page, lim, None)

\* the primary source returns: `CACHE.set(key, result)`, then the rest of the
\* handler
PrimaryReturn(pg) ==
    /\ req.pc = "primary"
    /\ LET value == IF req.ep = "search" THEN pg
                    ELSE [results |-> pg, has_next |-> (Len(pg) >= req.limit),
                          page |-> req.page]
           put == SetUnderLock(data, req.key, value, clock, ttl, maxsize)
       IN  IF put.raised
           THEN /\ data' = put.d
                /\ origin' = OriginOf(put.d, origin, data, req.key, None)
                /\ answer' = ErrorAnswer(1, FALSE)
                /\ req' = [req EXCEPT !.pc = "idle"]
           ELSE Finish(req, value, FALSE, put.d)
    /\ UNCHANGED <<clock, ttl, maxsize, tpc, tkey, tval, tnow, tret, last, hist,
                   track, cname, panswer, provider, lreq>>
    /\ UNCHANGED <<enrichVars, provVars>>

\* the primary source raises: `except Exception` turns it into HTTP 500
PrimaryRaise ==
    /\ req.pc = "primary"
    /\ answer' = ErrorAnswer(1, TRUE)
    /\ req' = [req EXCEPT !.pc = "idle"]
    /\ UNCHANGED <<origin, cname, panswer, provider, lreq>>
    /\ UNCHANGED <<cacheVars, enrichVars, provVars>>

\* get_episode_stream up to its first await-free call of the primary source:
\* language defaults to "sub" (stream.py:19), parse_language, then
\* format_episode_number (episode counted in halves) and provider.get_video;
\* ValueError is answered 400 (stream.py:58-59)
StreamRequest(l, halves) ==
    /\ lreq.pc = "idle"
    /\ LET language == IF l = None THEN <<"s", "u", "b">> ELSE l[1]
           lang_enum == parse_language(language)
           episode_val == IF halves % 2 = 0
                          THEN [t |-> "int", v |-> halves \div 2]
                          ELSE [t |-> "float", v |-> halves]
       IN  lreq' = IF lang_enum = "ValueError"
                   THEN [NoLang EXCEPT !.ep = "stream", !.language = l,
                                       !.status = 400]
                   ELSE [NoLang EXCEPT !.ep = "stream", !.language = l,
                                       !.pc = "get_video", !.lang = lang_enum,
                                       !.episode = episode_val,
                                       !.primarycalls = 1]
    /\ UNCHANGED <<cname, req, answer, origin, panswer, provider>>
    /\ UNCHANGED <<cacheVars, enrichVars, provVars>>

\* get_episodes up to its first call of the primary source:
\* `parse_language(language) if language else LanguageTypeEnum.SUB`
\* (anime.py:206), then provider.get_episodes; ValueError is answered 400
\* (anime.py:223-224)
EpisodesRequest(l) ==
    /\ lreq.pc = "idle"
    /\ LET lang_enum == IF Truthy(l) THEN parse_language(l[1]) ELSE "SUB"
       IN  lreq' = IF lang_enum = "ValueError"
                   THEN [NoLang EXCEPT !.ep = "episodes", !.language = l,
                                       !.status = 400]
                   ELSE [NoLang EXCEPT !.ep = "episodes", !.language = l,
                                       !.pc = "get_episodes", !.lang = lang_enum,
                                       !.primarycalls = 1]
    /\ UNCHANGED <<cname, req, answer, origin, panswer, provider>>
    /\ UNCHANGED <<cacheVars, enrichVars, provVars>>

\* the primary-source call in hand ends: it returns (get_episodes is followed
\* by get_info, anime.py:216; the others by the response), raises ValueError
\* (400, the same `except ValueError`) or raises anything else (500)
LangPrimary(o) ==
    /\ lreq.pc # "idle"
    /\ lreq' = IF o = "ValueError" THEN [lreq EXCEPT !.pc = "idle", !.status = 400]
               ELSE IF o = "Exception"
               THEN [lreq EXCEPT !.pc = "idle", !.status = 500]
               ELSE IF lreq.pc = "get_episodes"
               THEN [lreq EXCEPT !.pc = "get_info", !.primarycalls = 2]
               ELSE [lreq EXCEPT !.pc = "idle", !.status = 200]
    /\ UNCHANGED <<cname, req, answer, origin, panswer, provider>>
    /\ UNCHANGED <<cacheVars, enrichVars, provVars>>

LangNext ==
    \/ \E l \in Languages, halves \in {2, 3, 4} : StreamRequest(l, halves)
    \/ \E l \in Languages : EpisodesRequest(l)
    \/ \E o \in {"return", "ValueError", "Exception"} : LangPrimary(o)

PageNext ==
    \/ Tick
    \/ \E q \in Queries : SearchRequest(q, MaxPage - 1)
    \/ \E page \in PageNumbers, g \in GenreLists : BrowseRequest(page, MaxPage, g)
    \/ \E page \in PageNumbers : PopularRequest(page, MaxPage)
    \/ \E pg \in FrontPages : PrimaryReturn(pg)
    \/ PrimaryRaise

vars == <<cacheVars, enrichVars, provVars, pageVars>>

(***************************************************************************)
(* SpecCache: two threads share one cache.                                 *)
(* SpecSeq: one thread uses a cache; the history of its calls is kept.     *)
(***************************************************************************)
ConcInit == CacheInit(Ttl, ConcMaxsize, "off") /\ EnrichOff /\ ProvOff /\ PageOff
ConcNext == CacheNext(Threads, ConcKeys)
SpecCache == ConcInit /\ [][ConcNext]_vars

SeqInit == CacheInit(Ttl, SeqMaxsize, "times") /\ EnrichOff /\ ProvOff /\ PageOff
SeqNext == CacheNext({1}, Keys)
SpecSeq == SeqInit /\ [][SeqNext]_vars

(***************************************************************************)
(* SpecFifo: the operations of SpecSeq, with the history recording the     *)
(* order in which the caller put the keys into the store and the number of *)
(* entries each set purged.                                                *)
(***************************************************************************)
FifoInit == CacheInit(Ttl, SeqMaxsize, "order") /\ EnrichOff /\ ProvOff /\ PageOff
SpecFifo == FifoInit /\ [][SeqNext]_vars

(***************************************************************************)
(* SpecGos: one thread whose only operation is get_or_set, with factories  *)
(* that return a value or None, on more keys than maxsize.                 *)
(***************************************************************************)
GosNext ==
    \/ Tick
    \/ \E k \in Keys : GetOrSetCall(1, k)
    \/ GetLocked(1)
    \/ \E v \in Vals \cup {NoneValue} : GetOrSetFactory(1, v)
    \/ SetLocked(1)
SpecGos == FifoInit /\ [][GosNext]_vars

(***************************************************************************)
(* SpecEnrich: one request for a page (search, browse or popular) with the *)
(* set of failing enrichment providers fixed for the request.  The cache   *)
(* is not part of this specification: CacheOff keeps it empty.             *)
(***************************************************************************)
CacheOff == CacheInit(Ttl, SeqMaxsize, "off")
EnrichSpecInit == EnrichInit /\ CacheOff /\ ProvOff /\ PageOff
SpecEnrich == EnrichSpecInit /\ [][EnrichNext]_vars

(***************************************************************************)
(* SpecEnrichLive: SpecEnrich with the scheduling the code relies on: a    *)
(* worker of the executor takes a queued submission, every provider call   *)
(* returns (each has a timeout and ends in a return), the handler collects *)
(* a finished future, the event loop resumes a coroutine whose semaphore   *)
(* or gather is ready.  Nothing forces a request to arrive.                *)
(***************************************************************************)
EnrichFairness ==
    /\ WF_vars(\E i \in 1..MaxPage : PreStart(i))
    /\ WF_vars(\E i \in 1..MaxPage : PreFinish(i))
    /\ WF_vars(\E i \in 1..MaxPage : PreCollect(i))
    /\ WF_vars(\E i \in 1..MaxPage : Acquire(i))
    /\ WF_vars(\E i \in 1..MaxPage, p \in Providers : CallReturn(i, p))
    /\ WF_vars(\E i \in 1..MaxPage : Build(i))
    /\ WF_vars(Respond)
LiveInit == EnrichSpecInit /\ down \in FrontDowns
SpecEnrichLive == LiveInit /\ [][EnrichNext]_vars /\ EnrichFairness

(***************************************************************************)
(* SpecProv: sequential calls of one provider function, the upstream       *)
(* answering each call with any of its outcomes.                           *)
(***************************************************************************)
ProvSpecInit == ProvInit /\ CacheOff /\ EnrichOff /\ PageOff
SpecProv == ProvSpecInit /\ [][ProvNext]_vars

(***************************************************************************)
(* SpecLang: stream and episodes requests served one after the other, with *)
(* any language parameter and any outcome of the primary source's calls.   *)
(***************************************************************************)
LangInit == PageOff /\ CacheOff /\ EnrichOff /\ ProvOff
SpecLang == LangInit /\ [][LangNext]_vars

(***************************************************************************)
(* SpecCfg: one thread calling get, set and get_or_set on a cache built    *)
(* with any ttl and maxsize the constructor accepts, zero and negative     *)
(* included.                                                               *)
(***************************************************************************)
CfgInit ==
    /\ \E t \in {-1, 0, Ttl}, m \in {-1, 0, ConcMaxsize} : CacheInit(t, m, "off")
    /\ EnrichOff /\ ProvOff /\ PageOff
CfgNext == CacheNext({1}, ConcKeys)
SpecCfg == CfgInit /\ [][CfgNext]_vars

(***************************************************************************)
(* SpecPage: requests served one after the other from SEARCH_CACHE (search)*)
(* or from BROWSE_CACHE (browse, popular), time passing between the steps, *)
(* the primary source returning any page or raising, the enrichment        *)
(* providers all up or all down for the whole sequence.  The cache has    *)
(* room for ConcMaxsize entries, so that a request for another key evicts. *)
(***************************************************************************)
PageSpecInit ==
    PageInit /\ CacheInit(Ttl, ConcMaxsize, "off") /\ EnrichOff /\ ProvOff
SpecPage == PageSpecInit /\ [][PageNext]_vars

(***************************************************************************)
(* C1: the store of a TTLCache never holds more than maxsize entries,      *)
(* however get, set and get_or_set calls of several threads interleave and *)
(* however many distinct keys are set.                                     *)
(***************************************************************************)
C1_SizeBound == Len(data) <= maxsize

\* a set found the store full and evicted, while another thread is inside
\* get_or_set
C1_Witness ==
    /\ last.op = "set" /\ last.evicted > 0
    /\ Len(data) = maxsize
    /\ \E t \in Threads : tpc[t] = "gos_factory"

(***************************************************************************)
(* C2: get(key) returns the cached value if and only if the store holds an *)
(* entry for key whose expires_at is greater than the time the get read;   *)
(* otherwise it returns None, and an entry with expires_at <= now is       *)
(* removed from the store by that get.                                     *)
(***************************************************************************)
C2_GetContract ==
    [][\A t \in Threads :
         (tpc[t] = "get" /\ tpc'[t] = "idle") =>
            LET present == {i \in 1..Len(data) : data[i].key = tkey[t]}
                fresh == {i \in present : data[i].expires_at > tnow[t]}
            IN /\ (tret'[t] # None) <=> (fresh # {})
               /\ \A i \in fresh : tret'[t] = Some(data[i].value)
               /\ (present # {} /\ fresh = {}) => tkey[t] \notin DictKeys(data')]_vars

\* a get met an expired entry, returned None and removed the entry
C2_Witness ==
    /\ last.op = "get" /\ last.branch = "expired"
    /\ \E t \in Threads : tpc[t] = "idle" /\ tret[t] = None
    /\ Len(data) = 0

(***************************************************************************)
(* C3: a get(k) that follows set(k, v) before ttl has elapsed returns v,   *)
(* and a get(k) that reads the clock ttl or more after the last set of k   *)
(* returns None.                                                           *)
(***************************************************************************)
C3_SetThenGet ==
    [][\A t \in Threads :
         (tpc[t] = "get" /\ tpc'[t] = "idle") =>
            /\ (/\ last.op = "set" /\ last.branch = "stored"
                /\ last.key = tkey[t]
                /\ tnow[t] - last.now < ttl) => tret'[t] = Some(last.val)
            /\ (/\ hist.at[tkey[t]] >= 0
                /\ tnow[t] - hist.at[tkey[t]] >= ttl) => tret'[t] = None]_vars

\* a get(k) that read the clock ttl or more after the last set of k met the
\* entry and returned None, in a run where a get right after a set has hit
C3_Witness ==
    /\ last.op = "get" /\ last.branch = "expired"
    /\ hist.atonce
    /\ last.now >= hist.at[last.key] + ttl
    /\ tret[1] = None

(***************************************************************************)
(* C4: during a page-level enrichment call the number of provider calls in *)
(* flight at the same time stays within a fixed bound.  As stated, the     *)
(* bound is the value of the semaphore (C4_InFlightAtMostSemaphore); the   *)
(* semaphore counts entries, and each entry holding it has all its calls   *)
(* in flight at once, so the bound that holds is the value of the          *)
(* semaphore times the calls one entry can need, and max_workers during    *)
(* the image pre-pass (C4_InFlightBound).                                  *)
(***************************************************************************)
MaxCallsPerEntry(ep) ==
    Cardinality(IF ep = "search" THEN Providers ELSE Providers \ {"image"})

C4_InFlightAtMostSemaphore == InFlight <= SemValue

C4_InFlightBound ==
    InFlight <= (IF rpc = "prepass" THEN MaxWorkers
                 ELSE SemValue * MaxCallsPerEntry(endpoint))

\* the semaphore is fully taken and more calls than its value are in flight
C4_Witness ==
    /\ rpc = "gather"
    /\ Cardinality(Holders) = SemValue
    /\ InFlight = SemValue * MaxCallsPerEntry(endpoint)
    /\ InFlight > SemValue

(***************************************************************************)
(* C5: the number of entries whose pipeline holds the semaphore never      *)
(* exceeds its value, whatever the page size, and the image pre-pass never *)
(* runs more than max_workers lookups at once.                             *)
(***************************************************************************)
C5_PipelinesBounded ==
    /\ Cardinality(Holders) <= SemValue
    /\ Cardinality(Running) <= MaxWorkers

\* the semaphore is fully taken while a further entry of the page waits
C5_Witness ==
    /\ Cardinality(Holders) = SemValue
    /\ \E i \in DOMAIN est : est[i] = "waiting"
    /\ endpoint = "browse"
    /\ ptr > 0

(***************************************************************************)
(* C6: for every input list of N entries and every completion order of the *)
(* provider calls, the response carries N entries and its i-th entry has   *)
(* the identifier and the name of the i-th input; for search the input is  *)
(* the first min(limit, len(results)) primary results.                     *)
(***************************************************************************)
C6_OrderPreserved ==
    rpc = "done" =>
        LET n == IF endpoint = "search" THEN Min(limit, Len(primary))
                 ELSE Len(primary)
        IN  /\ Len(resp.data) = n
            /\ \A i \in 1..n :
                  /\ resp.data[i].identifier = primary[i].identifier
                  /\ resp.data[i].name = primary[i].name

\* a search cut by its limit answered, a later entry having completed before
\* an earlier one
C6_Witness ==
    /\ rpc = "done"
    /\ endpoint = "search"
    /\ limit < Len(primary)
    /\ Len(resp.data) >= 2
    /\ reordered

(***************************************************************************)
(* C7: when exactly one enrichment provider X fails on every call of a     *)
(* run, the request still answers normally, every field whose provider was *)
(* consulted and is not X carries that provider's value, and every field   *)
(* for which X was consulted is null.                                      *)
(***************************************************************************)
FieldOf(e, p) ==
    CASE p = "image" -> e.image
      [] p = "episodes" -> e.total_episode
      [] p = "score" -> e.rating_score
      [] p = "classification" -> e.rating_classification

C7_FailureIsolation ==
    /\ rpc = "error" => \E i \in DOMAIN items : items[i].languages = None
    /\ (rpc = "done" /\ Cardinality(down) = 1) =>
          /\ resp.status = 200
          /\ \A i \in DOMAIN resp.data : \A p \in Providers :
                calls[i][p].st = "returned" =>
                    FieldOf(resp.data[i], p) =
                        (IF p \in down THEN None ELSE calls[i][p].res)

\* popular answered with the relative image of the primary source although
\* the image provider, consulted for the entry, returned absence
C7_Witness ==
    /\ rpc = "done"
    /\ endpoint = "popular"
    /\ down = {"image"}
    /\ \E i \in DOMAIN resp.data :
          /\ calls[i]["image"].st = "returned"
          /\ calls[i]["image"].res = None
          /\ resp.data[i].image = Some(ImgRel)

(***************************************************************************)
(* C8: no call of get_jikan_image, get_jikan_total_episodes,               *)
(* get_jikan_rating, get_anilist_score or get_kitsu_age_rating raises to   *)
(* its caller, whatever the upstream outcome, and the call returns absence *)
(* (None; three Nones for get_jikan_rating) after a transport error, a     *)
(* timeout, a non-success status, an unparsable body, and a body in which  *)
(* the objects leading to the wanted field are missing or of another type. *)
(***************************************************************************)
HasKey(x, k) == x.t = "dict" /\ k \in DOMAIN x.v

FirstOfData(b) ==
    IF HasKey(b, "data") /\ b.v["data"].t = "list" /\ Len(b.v["data"].v) > 0
    THEN b.v["data"].v[1] ELSE Raised

PathPresent(f, b) ==
    LET first == FirstOfData(b)
    IN  CASE f = "get_jikan_image" ->
                /\ HasKey(first, "images")
                /\ HasKey(first.v["images"], "jpg")
                /\ first.v["images"].v["jpg"].t = "dict"
          [] f \in {"get_jikan_total_episodes", "get_jikan_rating"} ->
                first.t = "dict"
          [] f = "get_anilist_score" ->
                /\ HasKey(b, "data")
                /\ HasKey(b.v["data"], "Media")
                /\ b.v["data"].v["Media"].t = "dict"
          [] f = "get_kitsu_age_rating" ->
                /\ HasKey(first, "attributes")
                /\ first.v["attributes"].t = "dict"

IsAbsence(f, x) ==
    IF f = "get_jikan_rating"
    THEN x.t = "tuple" /\ \A i \in DOMAIN x.v : x.v[i].t = "none"
    ELSE x.t = "none"

PrimaryCounts(e) ==
    IF e.available_episodes = None THEN {}
    ELSE {c[1] : c \in {x \in {e.available_episodes[1].sub,
                               e.available_episodes[1].dub} : x # None}}

IsHttpUrl(img) ==
    /\ img # None
    /\ \/ StartsWith(img[1], <<"h", "t", "t", "p", ":", "/", "/">>)
       \/ StartsWith(img[1], <<"h", "t", "t", "p", "s", ":", "/", "/">>)

C10_ImageProvider ==
    \A i \in DOMAIN items :
        /\ IsHttpUrl(primary[i].image) => calls[i]["image"].st = "skipped"
        /\ (primary[i].image = None /\ out[i] # None) =>
              calls[i]["image"].st = "returned"

\* a page answered with an entry whose image came from the primary source
\* untouched and an entry whose image came from the provider
C10_Witness ==
    /\ rpc = "done"
    /\ \E i \in DOMAIN resp.data :
          /\ IsHttpUrl(primary[i].image)
          /\ calls[i]["image"].st = "skipped"
          /\ resp.data[i].image = primary[i].image
    /\ \E i \in DOMAIN resp.data :
          /\ primary[i].image = None
          /\ calls[i]["image"].st = "returned"
          /\ resp.data[i].image = calls[i]["image"].res
          /\ resp.data[i].image # None

(* C11: an image the primary source supplies that is present but is not an
   absolute URL (scheme compared without regard to case) is treated as
   missing: by the time the entry is enriched the image provider has been
   consulted for it, and when the provider returned absence the entry's
   image is cleared. *)
InvalidImage(img) ==
    /\ img # None
    /\ ~StartsWith(Lower(Strip(img[1])), <<"h", "t", "t", "p">>)

C11_InvalidImageCleared ==
    \A i \in DOMAIN items :
        (InvalidImage(primary[i].image) /\ out[i] # None) =>
            /\ calls[i]["image"].st = "returned"
            /\ calls[i]["image"].res = None => out[i][1].image = None

\* a search answered with the relative path "/c.jpg" of the primary source
\* while get_jikan_image was never called for the entry
C11_Witness ==
    /\ rpc = "done"
    /\ endpoint = "search"
    /\ \E i \in DOMAIN resp.data :
          /\ primary[i].image = Some(ImgRel)
          /\ calls[i]["image"].st = "skipped"
          /\ resp.data[i].image = Some(ImgRel)

(* C12: when a search request arrives for a key whose entry an earlier
   search request stored less than ttl ago and that is still in the cache,
   the request is answered without a get_search call (one call for the two
   requests, the one of the first), and with the same results as the first
   request for the same limit. *)
C12_SecondSearchFromCache ==
    [][(cname = "SEARCH_CACHE" /\ req.pc = "idle" /\ clock' = clock) =>
          LET i == IndexOfKey(data, req'.key)
          IN  (i # 0 /\ clock < origin[i].at + ttl) =>
                 /\ req'.pc = "idle"
                 /\ answer'.hit
                 /\ origin[i].answer.primarycalls + answer'.primarycalls = 1
                 /\ data' = data /\ origin' = origin
                 /\ req'.limit = origin[i].req.limit =>
                       /\ answer'.status = origin[i].answer.status
                       /\ answer'.total = origin[i].answer.total
                       /\ answer'.data = origin[i].answer.data]_vars

\* the same query asked a second time, later but within the ttl of the
\* entry the first request stored, answered from the cache with entries
C12_Witness ==
    /\ cname = "SEARCH_CACHE" /\ req.pc = "idle" /\ req.ep = "search"
    /\ answer.hit /\ answer.status = 200 /\ answer.primarycalls = 0
    /\ Len(answer.data) > 0
    /\ LET i == IndexOfKey(data, req.key)
       IN  /\ i # 0
           /\ origin[i].req.query = req.query
           /\ origin[i].at < clock /\ clock < origin[i].at + ttl
           /\ origin[i].answer.primarycalls = 1
           /\ origin[i].answer.data = answer.data

(* C13: the browse cache key does not depend on the order of the genre
   filter: a browse request with the same page, the same limit and the same
   genres, in any order, as the request that stored an entry derives the key
   of that entry. *)
SameGenres(g, h) ==
    \/ g = None /\ h = None
    \/ /\ g # None /\ h # None
       /\ Len(g[1]) = Len(h[1])
       /\ {g[1][i] : i \in 1..Len(g[1])} = {h[1][i] : i \in 1..Len(h[1])}

C13_GenreOrderIgnored ==
    \A i \in DOMAIN origin :
        ( /\ req.ep = "browse" /\ origin[i].req.ep = "browse"
          /\ req.page = origin[i].req.page
          /\ req.limit = origin[i].req.limit
          /\ SameGenres(req.genres, origin[i].req.genres) ) =>
            req.key = data[i].key

\* browse with genres (c, a) waits for the primary source while the entry
\* stored for genres (a, c), same page and limit, is in the cache, not expired
C13_Witness ==
    /\ req.pc = "primary" /\ req.ep = "browse"
    /\ req.genres = Some(<<"c", "a">>)
    /\ \E i \in DOMAIN origin :
          /\ origin[i].req.ep = "browse"
          /\ origin[i].req.genres = Some(<<"a", "c">>)
          /\ origin[i].req.page = req.page /\ origin[i].req.limit = req.limit
          /\ data[i].expires_at > clock

(* C14: the search cache key is the query trimmed and case-folded: a search
   whose query differs from the query that stored an entry only in letter
   case or in leading and trailing whitespace derives the key of that entry,
   and a query that differs in anything else derives another key. *)
SameLetter(a, b) ==
    \/ a = b
    \/ \E p \in {<<"h", "H">>, <<"p", "P">>, <<"g", "G">>, <<"t", "T">>} :
          {a, b} = {p[1], p[2]}

Blank(c) == c \in {" ", "\t", "\n"}

\* q without its leading and trailing whitespace
Core(q) ==
    LET ix == {i \in 1..Len(q) : ~Blank(q[i])}
    IN  IF ix = {} THEN <<>>
        ELSE SubSeq(q, CHOOSE i \in ix : \A j \in ix : i <= j,
                       CHOOSE i \in ix : \A j \in ix : i >= j)

SameQuery(q, r) ==
    /\ Len(Core(q)) = Len(Core(r))
    /\ \A i \in 1..Len(Core(q)) : SameLetter(Core(q)[i], Core(r)[i])

C14_SearchKeyNormalised ==
    \A i \in DOMAIN origin :
        (req.ep = "search" /\ origin[i].req.ep = "search") =>
            (SameQuery(req.query, origin[i].req.query) <=> req.key = data[i].key)

\* " hP<tab>" asked later than "hp" and answered from the entry "hp" stored
C14_Witness ==
    /\ req.ep = "search" /\ req.pc = "idle"
    /\ req.query = <<" ", "h", "P", "\t">>
    /\ answer.hit /\ answer.status = 200
    /\ \E i \in DOMAIN origin :
          /\ origin[i].req.query = <<"h", "p">>
          /\ origin[i].at < clock
          /\ req.key = data[i].key

(* C15: when the primary source raises during a search, browse or popular
   request, the request ends with status 500 and no entry list, no
   enrichment provider has been called for it, and the cache holds what it
   held when the request arrived, less the expired entry of the request's
   key that the lookup removed: no entry is stored for the key. *)
C15_PrimaryFailureIsFatal ==
    [][/\ (req.pc = "idle" /\ req'.pc = "primary") =>
            data' = SelectSeq(data, LAMBDA e : e.key # req'.key)
       /\ (req.pc = "primary" /\ answer'.primaryraised) =>
            /\ req'.pc = "idle"
            /\ answer'.status = 500
            /\ answer'.data = <<>>
            /\ answer'.providercalls = 0
            /\ data' = data
            /\ IndexOfKey(data', req.key) = 0]_vars

\* a search whose get_search raised, answered 500, beside the entry of
\* another query that stays in the cache
C15_Witness ==
    /\ req.ep = "search" /\ req.pc = "idle"
    /\ answer.primaryraised /\ answer.status = 500 /\ answer.data = <<>>
    /\ answer.providercalls = 0
    /\ data # <<>>
    /\ IndexOfKey(data, req.key) = 0

(* C16: enrichment never changes the catalog entries held in the cache:
   after any browse or popular request, the value BROWSE_CACHE holds under
   each key is equal, field for field, to what the primary source returned
   when the entry was stored. *)
C16_CachedValueAsReturned ==
    (cname = "BROWSE_CACHE" /\ req.pc = "idle") =>
        \A i \in DOMAIN data : data[i].value = origin[i].returned

\* after a browse request the cache holds, for an entry the primary source
\* returned with image "/c.jpg", the image the pre-pass wrote
C16_Witness ==
    /\ cname = "BROWSE_CACHE" /\ req.pc = "idle" /\ req.ep = "browse"
    /\ answer.status = 200 /\ ~answer.hit
    /\ LET i == IndexOfKey(data, req.key)
       IN  /\ i # 0
           /\ \E j \in DOMAIN data[i].value.results :
                 /\ origin[i].returned.results[j].image = Some(ImgRel)
                 /\ data[i].value.results[j].image # Some(ImgRel)

(* C17: no cache operation raises: for every ttl and maxsize the
   constructor accepts and every sequence of get and set calls, each call
   completes normally. *)
C17_NoOperationRaises == last.branch # "raised"

\* set on the empty cache of maxsize 0 has raised and stored nothing
C17_Witness ==
    /\ maxsize = 0
    /\ last.op = "set" /\ last.branch = "raised"
    /\ data = <<>>

(* C18: under any interleaving of the threads, the store holds at most one
   entry per key; an entry appears in it only as the key, value and expiry
   of a set call completing at that step, and until then the entries stay
   as they are or are removed; a completing set(k, v) leaves v as the value
   of k; and a get(k) that returns a value returns the value of the entry of
   k, not expired at the time the get read.  So every value a get returns
   is the argument of an earlier or concurrent set of that key, and after
   set(k, v) returned and until expiry, eviction or another set of k, a
   get(k) returns v. *)
C18_Linearizable ==
    [][/\ \A i, j \in 1..Len(data') : data'[i].key = data'[j].key => i = j
       /\ \A i \in 1..Len(data') :
             \/ \E j \in 1..Len(data) : data[j] = data'[i]
             \/ \E t \in Threads :
                   /\ tpc[t] \in {"set", "gos_set"} /\ tpc'[t] = "idle"
                   /\ data'[i] = [key |-> tkey[t], value |-> tval[t],
                                  expires_at |-> tnow[t] + ttl]
       /\ \A t \in Threads :
             (tpc[t] \in {"set", "gos_set"} /\ tpc'[t] = "idle") =>
                 \E i \in 1..Len(data') :
                     data'[i].key = tkey[t] /\ data'[i].value = tval[t]
       /\ \A t \in Threads :
             (tpc[t] = "get" /\ tpc'[t] = "idle" /\ tret'[t] # None) =>
                 \E i \in 1..Len(data) :
                     /\ data[i].key = tkey[t]
                     /\ data[i].expires_at > tnow[t]
                     /\ tret'[t] = Some(data[i].value)
                     /\ data'[i] = data[i]]_vars

\* a get has returned the stored value of a key while another thread is
\* inside set with a different value for that key
C18_Witness ==
    /\ last.op = "get" /\ last.branch = "hit"
    /\ Len(data) = 1
    /\ \E t, u \in Threads :
          /\ t # u
          /\ tpc[t] = "idle" /\ tret[t] = Some(data[1].value)
          /\ tpc[u] = "set" /\ tkey[u] = data[1].key /\ tval[u] # data[1].value

(* C19: a page-level response is produced only after the pipeline of every
   entry of the page has completed: a response with entries has one entry
   per item, every pipeline done and no provider call in flight; before
   that the response carries no entry; and when a pipeline raised the
   response is an error with no entry list. *)
C19_ResponseAfterAllPipelines ==
    /\ resp.data # <<>> => rpc = "done"
    /\ rpc = "done" =>
          /\ resp.status = 200
          /\ Len(resp.data) = Len(items)
          /\ \A i \in DOMAIN items :
                /\ est[i] = "done"
                /\ out[i] = Some(resp.data[i])
                /\ \A p \in Providers :
                      calls[i][p].st \in {"skipped", "returned"}
    /\ (\E i \in DOMAIN est : est[i] = "raised") =>
          /\ rpc = "error"
          /\ resp.status = 500
          /\ resp.data = <<>>
    /\ (rpc = "done") => \A i \in DOMAIN items : items[i].languages # None

\* the pipeline of the last entry raised after the first entry was built:
\* the response is an error without the entry that was ready
C19_Witness ==
    /\ rpc = "error" /\ resp.status = 500 /\ resp.data = <<>>
    /\ \E i, j \in DOMAIN est :
          /\ est[i] = "raised"
          /\ est[j] = "done" /\ out[j] # None

(* C20: for a page of any size, larger than the semaphore included, when
   every provider call eventually returns the request eventually returns:
   whatever providers fail, every entry gets the semaphore and is enriched,
   the response carries them all and every permit of the semaphore is free
   again; the one other ending is the error of a page with a malformed
   entry. *)
C20_EveryEntryCompletes ==
    (rpc \in {"prepass", "gather"})
       ~> \/ /\ rpc = "done"
             /\ Len(resp.data) = Len(items)
             /\ \A i \in DOMAIN items : est[i] = "done" /\ out[i] # None
             /\ Holders = {}
          \/ /\ rpc = "error"
             /\ \E i \in DOMAIN items : items[i].languages = None

\* a page with more entries than the semaphore has permits, all providers
\* failing, answered with every entry and every permit free
C20_Witness ==
    /\ rpc = "done" /\ resp.status = 200
    /\ Len(items) > SemValue
    /\ Len(resp.data) = Len(items)
    /\ down = Providers
    /\ Holders = {}
    /\ \A i \in DOMAIN items : est[i] = "done"

(* C21: get_or_set gives no single-flight guarantee: two threads can both
   miss on one key and both call the factory, and each set that follows
   stores its own value, replacing whatever the other thread stored: the
   entry left in the store is the one of the later set. *)
C21_LaterSetWins ==
    [][\A t \in Threads :
          (tpc[t] = "gos_set" /\ tpc'[t] = "idle") =>
              /\ tret'[t] = Some(tval[t])
              /\ \E i \in 1..Len(data') :
                    data'[i] = [key |-> tkey[t], value |-> tval[t],
                                expires_at |-> tnow[t] + ttl]
              /\ \A i \in 1..Len(data') :
                    data'[i].key = tkey[t] => data'[i].value = tval[t]]_vars

\* both threads missed on the same key and both factories have returned,
\* with different values; one has stored its value, the other is about to
\* replace it
C21_Witness ==
    \E t, u \in Threads :
        /\ t # u
        /\ tpc[t] = "idle" /\ tpc[u] = "gos_set"
        /\ last.op = "set" /\ tret[t] # None
        /\ Len(data) = 1
        /\ data[1].key = tkey[u]
        /\ tret[t] = Some(data[1].value)
        /\ tval[u] # data[1].value

(* C22: in a sequential run of get_or_set calls, a get_or_set(k, g) that
   finds k's entry in the store and unexpired returns that entry's value
   and does not invoke g, whatever value the earlier factory returned. *)
C22_SecondCallFromCache ==
    [][(tpc[1] = "gos_get" /\ tpc'[1] # "gos_get") =>
          \A i \in 1..Len(data) :
              (data[i].key = tkey[1] /\ data[i].expires_at > tnow[1]) =>
                  /\ tpc'[1] = "idle"
                  /\ tret'[1] = Some(data[i].value)]_vars

\* the second get_or_set has found k's unexpired entry, stored by a factory
\* that returned None, and is about to invoke its own factory
C22_Witness ==
    /\ tpc[1] = "gos_factory"
    /\ \E i \in 1..Len(data) :
          /\ data[i].key = tkey[1]
          /\ data[i].expires_at > tnow[1]
          /\ data[i].value = NoneValue

(* C23: every set purges the expired entries before it inserts: right after
   a set(k, v) that read the clock at time t has run, the store holds no
   entry of a key other than k whose expires_at is t or earlier. *)
C23_SetPurgesExpired ==
    [][\A t \in Threads :
          (tpc[t] \in {"set", "gos_set"} /\ tpc'[t] = "idle") =>
              \A i \in 1..Len(data') :
                  data'[i].key # tkey[t] => data'[i].expires_at > tnow[t]]_vars

\* a set has purged an expired entry and kept an unexpired one next to its own
C23_Witness ==
    /\ last.op = "set" /\ last.branch = "stored"
    /\ last.purged > 0 /\ last.evicted = 0
    /\ Len(data) = SeqMaxsize

(* C24: a set of a key that is not in the store, finding the store holding
   exactly maxsize unexpired entries, evicts exactly one entry, the one whose
   key the caller put into the store first among the keys present (an
   overwrite of a key that is in the store does not move that key in this
   order), and keeps every other entry. *)
C24_EvictsFirstInserted ==
    [][(/\ tpc[1] = "set" /\ tpc'[1] = "idle"
        /\ IndexOfKey(data, tkey[1]) = 0
        /\ Len(data) = maxsize
        /\ \A i \in 1..Len(data) : data[i].expires_at > tnow[1]) =>
          /\ IndexOfKey(data', Head(hist.order)) = 0
          /\ \A i \in 1..Len(data) :
                data[i].key # Head(hist.order) =>
                    \E j \in 1..Len(data') : data'[j] = data[i]
          /\ Len(data') = maxsize]_vars

\* a set of a new key has found the store full of unexpired entries whose
\* first key in dictionary order is not the key the caller put there first
C24_Witness ==
    /\ tpc[1] = "set"
    /\ IndexOfKey(data, tkey[1]) = 0
    /\ Len(data) = maxsize
    /\ \A i \in 1..Len(data) : data[i].expires_at > tnow[1]
    /\ data[1].key # Head(hist.order)

(* C25: a set(k, v2) of a key that is in the store and unexpired removes no
   other unexpired entry: afterwards the store holds the keys of the
   unexpired entries it held before, each other entry as it was, and k
   mapped to v2. *)
C25_OverwriteKeepsOthers ==
    [][(/\ tpc[1] = "set" /\ tpc'[1] = "idle"
        /\ \E i \in 1..Len(data) :
              data[i].key = tkey[1] /\ data[i].expires_at > tnow[1]) =>
          /\ \A i \in 1..Len(data) :
                (data[i].key # tkey[1] /\ data[i].expires_at > tnow[1]) =>
                    \E j \in 1..Len(data') : data'[j] = data[i]
          /\ \A j \in 1..Len(data') :
                \E i \in 1..Len(data) : data[i].key = data'[j].key
          /\ \E j \in 1..Len(data') :
                data'[j].key = tkey[1] /\ data'[j].value = tval[1]]_vars

\* an overwrite of the newer of two unexpired entries is at the lock with the
\* store full: the size cap is about to pop the other entry
C25_Witness ==
    /\ tpc[1] = "set"
    /\ Len(data) = maxsize /\ maxsize > 1
    /\ data[Len(data)].key = tkey[1]
    /\ \A i \in 1..Len(data) : data[i].expires_at > tnow[1]

(* C26: get(k) leaves the store as it is, except that it removes k's own
   entry when that entry is expired: the entries of the other keys stay,
   with their values, expiry times and order, none is added, and a hit
   leaves k's entry, its expiry and its position as they were. *)
C26_GetFrame ==
    [][\A t \in Threads :
          (tpc[t] \in {"get", "gos_get"} /\ tpc'[t] # tpc[t]) =>
              LET i == IndexOfKey(data, tkey[t])
                  Others(d) == SelectSeq(d, LAMBDA e : e.key # tkey[t])
              IN /\ Others(data') = Others(data)
                 /\ IF i # 0 /\ data[i].expires_at > tnow[t]
                    THEN data' = data
                    ELSE IndexOfKey(data', tkey[t]) = 0]_vars

\* a get has removed its key's expired entry and left the unexpired entry of
\* another key in the store
C26_Witness ==
    /\ last.op = "get" /\ last.branch = "expired"
    /\ tpc[1] = "idle"
    /\ Len(data) = 1
    /\ data[1].expires_at > clock

(* C27: within one entry's pipeline every provider call the entry needs
   (score and classification always, the episode count when the primary
   source gave no count, the image in search when the primary source gave
   no image) is started before the pipeline waits on any of them, so none
   is still to be started while another is awaited; and the enriched entry
   is built only after all of them have returned. *)
CallsOfEntry(i) ==
    {"score", "classification"}
        \cup (IF PrimaryCounts(primary[i]) = {} THEN {"episodes"} ELSE {})
        \cup (IF endpoint = "search" /\ primary[i].image \in {None, Some(ImgEmpty)}
              THEN {"image"} ELSE {})

C27_CallsStartedTogether ==
    \A i \in DOMAIN est :
        /\ est[i] = "waiting" =>
              \A p \in CallsOfEntry(i) : calls[i][p].st = "skipped"
        /\ est[i] = "running" =>
              \A p \in CallsOfEntry(i) : calls[i][p].st \in {"pending", "returned"}
        /\ out[i] # None =>
              \A p \in CallsOfEntry(i) : calls[i][p].st = "returned"

\* one entry was built after its four calls returned; another one is waiting
\* on a call while the other three it needs have been started, one of them
\* having returned
C27_Witness ==
    /\ endpoint = "search"
    /\ \E i, j \in DOMAIN est :
          /\ out[i] # None /\ CallsOfEntry(i) = Providers
          /\ est[j] = "running" /\ CallsOfEntry(j) = Providers
          /\ \E p, q \in Providers :
                calls[j][p].st = "pending" /\ calls[j][q].st = "returned"

(* C28: each provider function remembers its outcome per name, absence
   included: a lookup of a name that is in the table returns the remembered
   outcome without an upstream call, every lookup leaves its name as the
   most recently used one, a name leaves the table only as the least
   recently used one of a full table, and the table never holds more than
   its maximum number of names (128 in the code). *)
C28_Memoized ==
    [][LET n == pcall'.name
           at == {i \in DOMAIN memo : memo[i].name = n}
           rest == SelectSeq(memo, LAMBDA e : e.name # n)
       IN  /\ Len(memo') <= LruMaxsize
           /\ \A i, j \in DOMAIN memo' : memo'[i].name = memo'[j].name => i = j
           /\ memo'[Len(memo')] = [name |-> n, val |-> pcall'.val]
           /\ IF at # {}
              THEN /\ pcall'.hit /\ pcall'.outcome = 0
                   /\ \A i \in at : pcall'.val = memo[i].val
              ELSE ~pcall'.hit /\ pcall'.outcome # 0
           /\ SubSeq(memo', 1, Len(memo') - 1) =
                 IF Len(rest) < LruMaxsize THEN rest ELSE Tail(rest)]_vars

\* a lookup was answered from a full table with the absence remembered for
\* its name
C28_Witness ==
    /\ pcall.hit
    /\ IsAbsence(fn, pcall.val)
    /\ Len(memo) = LruMaxsize
    /\ memo[Len(memo)].name = pcall.name

(* C30: the classification provider maps the upstream codes G, PG, R and
   R18, in upper or lower case, to their display labels, returns any other
   non-empty code as it came, and returns absence for an empty or missing
   code. *)
LabelOfCode(code) ==
    CASE code \in {<<"G">>, <<"g">>} ->
            Some(<<"G", " ", "-", " ", "A", "l", "l", " ", "A", "g", "e", "s">>)
      [] code \in {<<"P", "G">>, <<"p", "g">>, <<"P", "g">>, <<"p", "G">>} ->
            Some(<<"P", "G", " ", "-", " ", "C", "h", "i", "l", "d", "r", "e", "n">>)
      [] code \in {<<"R">>, <<"r">>} ->
            Some(<<"R", " ", "-", " ", "1", "7", "+">>)
      [] code \in {<<"R", "1", "8">>, <<"r", "1", "8">>} ->
            Some(<<"R", "1", "8", "+", " ", "-", " ", "A", "d", "u", "l", "t",
                   "s", " ", "O", "n", "l", "y">>)
      [] OTHER -> None

C30_ClassificationMapping ==
    (/\ fn = "get_kitsu_age_rating" /\ pcall.name # "" /\ ~pcall.hit
     /\ Outcomes(fn)[pcall.outcome].kind = "ok"
     /\ PathPresent(fn, Outcomes(fn)[pcall.outcome].body)) =>
        LET attrs == FirstOfData(Outcomes(fn)[pcall.outcome].body).v["attributes"]
        IN  IF ~HasKey(attrs, "ageRating") \/ attrs.v["ageRating"].t = "none"
            THEN pcall.val = JNull
            ELSE LET code == attrs.v["ageRating"]
                 IN  code.t = "str" =>
                        pcall.val =
                            IF code.v = <<>> THEN JNull
                            ELSE IF LabelOfCode(code.v) # None
                            THEN JStr(LabelOfCode(code.v)[1])
                            ELSE JStr(code.v)

\* the lower-case code pg came back as the label of PG
C30_Witness ==
    /\ fn = "get_kitsu_age_rating" /\ pcall.name # "" /\ ~pcall.hit
    /\ Outcomes(fn)[pcall.outcome] = Ok(Kitsu(JStr(<<"p", "g">>)))
    /\ pcall.val = JStr(<<"P", "G", " ", "-", " ", "C", "h", "i", "l", "d", "r",
                          "e", "n">>)

(* C29: when the provider has no get_browse the browse endpoint answers with
   status 501, and when it has neither get_browse nor empty-query search the
   popular endpoint answers with status 501; in both cases without a call of
   the primary source or of an enrichment provider. *)
NotSupported ==
    \/ req.ep = "browse" /\ ~provider.get_browse
    \/ req.ep = "popular" /\ ~provider.get_browse /\ ~provider.no_query

C29_UnsupportedIs501 ==
    (NotSupported /\ answer.status # 0) =>
        /\ answer.status = 501
        /\ answer.primarycalls = 0
        /\ answer.providercalls = 0

\* a browse request to a provider without get_browse has been answered, with
\* no upstream call and the cache empty
C29_Witness ==
    /\ req.ep = "browse" /\ req.pc = "idle"
    /\ ~provider.get_browse
    /\ answer.status = 500
    /\ answer.primarycalls = 0 /\ answer.providercalls = 0
    /\ data = <<>>

(* C31: the episode-count provider returns absence or a positive integer,
   whatever the upstream payload: a zero, negative or non-integer episode
   value gives absence. *)
C31_EpisodesPositive ==
    (fn = "get_jikan_total_episodes" /\ pcall.name # "") =>
        \/ pcall.val.t = "none"
        \/ pcall.val.t = "int" /\ pcall.val.v > 0

\* the upstream answered with episodes 0 and the provider returned 0
C31_Witness ==
    /\ fn = "get_jikan_total_episodes" /\ pcall.name # "" /\ ~pcall.hit
    /\ Outcomes(fn)[pcall.outcome].kind = "ok"
    /\ HasKey(FirstOfData(Outcomes(fn)[pcall.outcome].body), "episodes")
    /\ FirstOfData(Outcomes(fn)[pcall.outcome].body).v["episodes"] = JInt(0)
    /\ pcall.val.t = "int" /\ pcall.val.v = 0

(* C32: the keys of the popular endpoint and of the browse endpoint in the
   shared BROWSE_CACHE never coincide: a request of one endpoint never
   derives the key of an entry stored by the other, whatever the page, limit
   and genres, and so a hit is always on an entry stored by a request of the
   same endpoint. *)
C32_PopularAndBrowseKeysApart ==
    /\ \A i \in DOMAIN origin :
          ( /\ req.ep \in {"browse", "popular"}
            /\ origin[i].req.ep \in {"browse", "popular"}
            /\ origin[i].req.ep # req.ep ) => req.key # data[i].key
    /\ \A page \in PageNumbers, lim \in 1..MaxPage, g \in GenreLists :
          \A ppage \in PageNumbers, plim \in 1..MaxPage :
              PopularKey(ppage, plim) # BrowseKey(page, lim, g)
    /\ (answer.hit /\ req.ep \in {"browse", "popular"}) =>
          \A i \in DOMAIN origin :
              data[i].key = req.key => origin[i].req.ep = req.ep

\* a popular request waits for the primary source, having missed, while the
\* unexpired entry a browse request stored for the same page and limit and
\* no genres is in the cache
C32_Witness ==
    /\ req.pc = "primary" /\ req.ep = "popular"
    /\ \E i \in DOMAIN origin :
          /\ origin[i].req.ep = "browse"
          /\ origin[i].req.genres = None
          /\ origin[i].req.page = req.page /\ origin[i].req.limit = req.limit
          /\ data[i].expires_at > clock

(* C33: a stream or episodes request whose language is neither "sub" nor
   "dub", letter case aside, is answered with status 400 and no call of the
   primary source; "sub" and "dub" in any letter case are accepted and passed
   on as that language; an omitted language on the episodes endpoint is
   taken as sub. *)
IsLanguage(l, small, capital) ==
    /\ Len(l) = 3
    /\ \A i \in 1..3 : l[i] \in {small[i], capital[i]}

C33_LanguageValidated ==
    lreq.ep \in {"stream", "episodes"} =>
        IF lreq.language = None
        THEN lreq.lang = "SUB" /\ lreq.primarycalls > 0
        ELSE IF IsLanguage(lreq.language[1], <<"s", "u", "b">>, <<"S", "U", "B">>)
        THEN lreq.lang = "SUB" /\ lreq.primarycalls > 0
        ELSE IF IsLanguage(lreq.language[1], <<"d", "u", "b">>, <<"D", "U", "B">>)
        THEN lreq.lang = "DUB" /\ lreq.primarycalls > 0
        ELSE /\ lreq.pc = "idle"
             /\ lreq.status = 400
             /\ lreq.primarycalls = 0

\* an episodes request with the empty string as language is waiting for
\* get_episodes, called for the sub language
C33_Witness ==
    /\ lreq.ep = "episodes"
    /\ lreq.language = Some(<<>>)
    /\ lreq.pc = "get_episodes"
    /\ lreq.lang = "SUB"
    /\ lreq.primarycalls = 1

====
